---- MODULE Spec2Model ----
(***************************************************************************)
(* Model of the stock-pulse event pipeline: the aggregation engine         *)
(* (services/event_aggregator.py), the Event table (models/event.py) and   *)
(* the callers that open a database session around upsert_events.          *)
(*                                                                         *)
(* Python values are modelled as follows.                                  *)
(*   None            the empty tuple <<>>                                  *)
(*   a value v that  the one-element tuple <<v>>                           *)
(*   may be None                                                           *)
(*   a dict          a function whose DOMAIN is the set of keys present    *)
(*   a datetime      [wall, off, aware]: the wall-clock reading in ticks,  *)
(*                   the UTC offset in seconds, and whether tzinfo is set  *)
(* Time is scaled: a day has SecPerDay seconds and a second SubPerSec      *)
(* sub-second ticks, so "23:59:59" is second SecPerDay - 1 of a day.       *)
(***************************************************************************)
EXTENDS Integers, Sequences, FiniteSets, TLC

\* ------------------------------------------------------------------ bounds
NumDays == 2
SecPerDay == 2
SubPerSec == 2
MaxOffset == 1
MaxBatch == 2
MaxCalls == 2
NumSessions == 2
DaysPerMonth == 2
MaxAdds == 1
MaxReads == 2
MaxRuns == 1
MaxTriggers == 2
MaxViewRows == 4
MonthsPerYear == 2

TicksPerDay == SecPerDay * SubPerSec
LastSec == SecPerDay - 1
LastSub == SubPerSec - 1

\* ------------------------------------------------------------ python values
None == <<>>
Some(v) == <<v>>

\* dict.get(key): the value, or None when the key is absent
Get(ed, key) == IF key \in DOMAIN ed THEN ed[key] ELSE None

\* dict.get(key, default) for keys whose values are plain strings
GetOr(ed, key, default) == IF key \in DOMAIN ed THEN ed[key] ELSE default

\* truth value of an optional string: None and "" are falsy
Truthy(opt) == opt # None /\ opt[1] # ""

\* -------------------------------------------------------------- datetimes
Utc(day, sec, sub) ==
    [wall |-> day * TicksPerDay + sec * SubPerSec + sub, off |-> 0, aware |-> TRUE]

Naive(day, sec, sub) ==
    [wall |-> day * TicksPerDay + sec * SubPerSec + sub, off |-> 0, aware |-> FALSE]

Zoned(day, sec, sub, off) ==
    [wall |-> day * TicksPerDay + sec * SubPerSec + sub, off |-> off, aware |-> TRUE]

\* the instant of an aware datetime, in ticks since the epoch (what a
\* timestamptz column holds and what comparisons in the store use)
Instant(dt) == dt.wall - dt.off * SubPerSec

\* event_date.replace(tzinfo=timezone.utc) when tzinfo is None
EnsureAware(dt) == IF dt.aware THEN dt ELSE [dt EXCEPT !.aware = TRUE, !.off = 0]

\* event_date.replace(hour=0, minute=0, second=0, microsecond=0)
DayStart(dt) == [dt EXCEPT !.wall = dt.wall - (dt.wall % TicksPerDay)]

\* day_start.replace(hour=23, minute=59, second=59): microsecond stays 0
DayEnd(day_start) == [day_start EXCEPT !.wall = day_start.wall + LastSec * SubPerSec]

\* UTC calendar day of an instant
UtcDay(t) == t \div TicksPerDay

\* ------------------------------------------------------------ Event rows
\* Columns _update_existing_event fills from the draft.
FillFields == {"eps_actual", "revenue_actual", "actual_value", "description"}

\* Columns copied from the draft with ed.get(name) when a row is inserted.
CopiedFields ==
    {"description", "eps_estimate", "eps_actual", "revenue_estimate", "revenue_actual",
     "report_time", "macro_event_name", "consensus", "actual_value", "previous_value",
     "filing_type", "filing_url", "source", "raw_data"}

\* Event(...) as built by upsert_events, with the column defaults the ORM
\* applies when the row is flushed.  The table has no analyst_firm,
\* from_rating, to_rating or target_price column and the constructor call
\* passes none of them.
NewEvent(id, ed, event_date, now) ==
    [id |-> id,
     ticker |-> Get(ed, "ticker"),
     event_type |-> GetOr(ed, "event_type", ""),
     event_date |-> Instant(event_date),
     title |-> GetOr(ed, "title", ""),
     description |-> Get(ed, "description"),
     importance |-> GetOr(ed, "importance", "medium"),
     status |-> GetOr(ed, "status", "upcoming"),
     eps_estimate |-> Get(ed, "eps_estimate"),
     eps_actual |-> Get(ed, "eps_actual"),
     revenue_estimate |-> Get(ed, "revenue_estimate"),
     revenue_actual |-> Get(ed, "revenue_actual"),
     report_time |-> Get(ed, "report_time"),
     macro_event_name |-> Get(ed, "macro_event_name"),
     consensus |-> Get(ed, "consensus"),
     actual_value |-> Get(ed, "actual_value"),
     previous_value |-> Get(ed, "previous_value"),
     filing_type |-> Get(ed, "filing_type"),
     filing_url |-> Get(ed, "filing_url"),
     ai_summary |-> None,
     ai_detail |-> None,
     source |-> Get(ed, "source"),
     raw_data |-> Get(ed, "raw_data"),
     created_at |-> now,
     updated_at |-> now]

\* _update_existing_event without `and event.eps_actual is None`
UpdateExistingEvent_Overwrite(event, ed, now) ==
    LET e1 == IF Get(ed, "eps_actual") # None
              THEN [event EXCEPT !.eps_actual = ed["eps_actual"]] ELSE event
        e2 == IF Get(ed, "revenue_actual") # None /\ e1.revenue_actual = None
              THEN [e1 EXCEPT !.revenue_actual = ed["revenue_actual"]] ELSE e1
        e3 == IF Get(ed, "actual_value") # None /\ e2.actual_value = None
              THEN [e2 EXCEPT !.actual_value = ed["actual_value"]] ELSE e2
        e4 == IF GetOr(ed, "status", "") = "completed" /\ e3.status # "completed"
              THEN [e3 EXCEPT !.status = "completed"] ELSE e3
        e5 == IF Truthy(Get(ed, "description")) /\ ~Truthy(e4.description)
              THEN [e4 EXCEPT !.description = ed["description"]] ELSE e4
    IN [e5 EXCEPT !.updated_at = now]

\* _update_existing_event with status taken from the draft whenever it has one
UpdateExistingEvent_StatusFollows(event, ed, now) ==
    LET e1 == IF Get(ed, "eps_actual") # None /\ event.eps_actual = None
              THEN [event EXCEPT !.eps_actual = ed["eps_actual"]] ELSE event
        e2 == IF Get(ed, "revenue_actual") # None /\ e1.revenue_actual = None
              THEN [e1 EXCEPT !.revenue_actual = ed["revenue_actual"]] ELSE e1
        e3 == IF Get(ed, "actual_value") # None /\ e2.actual_value = None
              THEN [e2 EXCEPT !.actual_value = ed["actual_value"]] ELSE e2
        e4 == IF "status" \in DOMAIN ed /\ e3.status # ed["status"]
              THEN [e3 EXCEPT !.status = ed["status"]] ELSE e3
        e5 == IF Truthy(Get(ed, "description")) /\ ~Truthy(e4.description)
              THEN [e4 EXCEPT !.description = ed["description"]] ELSE e4
    IN [e5 EXCEPT !.updated_at = now]

\* _update_existing_event with updated_at left to the column's onupdate,
\* which fires only when some other column changed
UpdateExistingEvent_OnUpdateOnly(event, ed, now) ==
    LET e1 == IF Get(ed, "eps_actual") # None /\ event.eps_actual = None
              THEN [event EXCEPT !.eps_actual = ed["eps_actual"]] ELSE event
        e2 == IF Get(ed, "revenue_actual") # None /\ e1.revenue_actual = None
              THEN [e1 EXCEPT !.revenue_actual = ed["revenue_actual"]] ELSE e1
        e3 == IF Get(ed, "actual_value") # None /\ e2.actual_value = None
              THEN [e2 EXCEPT !.actual_value = ed["actual_value"]] ELSE e2
        e4 == IF GetOr(ed, "status", "") = "completed" /\ e3.status # "completed"
              THEN [e3 EXCEPT !.status = "completed"] ELSE e3
        e5 == IF Truthy(Get(ed, "description")) /\ ~Truthy(e4.description)
              THEN [e4 EXCEPT !.description = ed["description"]] ELSE e4
    IN IF e5 = event THEN event ELSE [e5 EXCEPT !.updated_at = now]

\* _update_existing_event(event, ed)
UpdateExistingEvent(event, ed, now) ==
    LET e1 == IF Get(ed, "eps_actual") # None /\ event.eps_actual = None
              THEN [event EXCEPT !.eps_actual = ed["eps_actual"]] ELSE event
        e2 == IF Get(ed, "revenue_actual") # None /\ e1.revenue_actual = None
              THEN [e1 EXCEPT !.revenue_actual = ed["revenue_actual"]] ELSE e1
        e3 == IF Get(ed, "actual_value") # None /\ e2.actual_value = None
              THEN [e2 EXCEPT !.actual_value = ed["actual_value"]] ELSE e2
        e4 == IF GetOr(ed, "status", "") = "completed" /\ e3.status # "completed"
              THEN [e3 EXCEPT !.status = "completed"] ELSE e3
        e5 == IF Truthy(Get(ed, "description")) /\ ~Truthy(e4.description)
              THEN [e4 EXCEPT !.description = ed["description"]] ELSE e4
    IN [e5 EXCEPT !.updated_at = now]

\* The conditions of the dedup query that do not read event_date: equal
\* event_type and title, and ticker equal to the draft's when the draft's
\* ticker is truthy, NULL otherwise.
KeyMatch(row, ed) ==
    LET ticker == Get(ed, "ticker")
    IN /\ row.event_type = GetOr(ed, "event_type", "")
       /\ row.title = GetOr(ed, "title", "")
       /\ IF Truthy(ticker) THEN row.ticker = ticker ELSE row.ticker = None

\* The date conditions: event_date between day_start and day_end, both taken
\* in the draft's own UTC offset.
DateMatch(row, ed) ==
    LET event_date == EnsureAware(ed["event_date"][1])
        day_start == DayStart(event_date)
        day_end == DayEnd(day_start)
    IN /\ row.event_date >= Instant(day_start)
       /\ row.event_date <= Instant(day_end)

\* The WHERE clause upsert_events builds for a draft whose event_date is a
\* datetime.
Matching(row, ed) == KeyMatch(row, ed) /\ DateMatch(row, ed)

\* ------------------------------------------------ one session, one batch
\* A session is [rows, next, inserted, trace]: the rows the session sees
\* (committed rows plus its own flushed changes; autoflush is on), the next
\* fresh identifier, the `inserted` counter and, for each draft handled so
\* far, what was done with it.
Replace(rows, old, new) == (rows \ {old}) \cup {new}

Skipped(st) ==
    [st EXCEPT !.trace = Append(@, [kind |-> "skipped", old |-> None, new |-> None,
                                    view |-> st.rows])]

\* a merge that also counts as inserted (inserted += 1 after the if/else)
Merged_Counted(st, row, ed, now) ==
    LET new == UpdateExistingEvent(row, ed, now)
        rows == Replace(st.rows, row, new)
    IN [st EXCEPT !.rows = rows, !.inserted = st.inserted + 1,
                  !.trace = Append(@, [kind |-> "merged", old |-> Some(row),
                                       new |-> Some(new), view |-> rows])]

Merged(st, row, ed, now) ==
    LET new == UpdateExistingEvent(row, ed, now)
        rows == Replace(st.rows, row, new)
    IN [st EXCEPT !.rows = rows,
                  !.trace = Append(@, [kind |-> "merged", old |-> Some(row),
                                       new |-> Some(new), view |-> rows])]

Inserted(st, ed, now) ==
    LET new == NewEvent(st.next, ed, EnsureAware(ed["event_date"][1]), now)
        rows == st.rows \cup {new}
    IN [st EXCEPT !.rows = rows, !.next = st.next + 1, !.inserted = st.inserted + 1,
                  !.trace = Append(@, [kind |-> "inserted", old |-> None,
                                       new |-> Some(new), view |-> rows])]

\* the loop body without `if event_date is None: continue`: a draft with no
\* event_date gets a query with no date condition
UpsertStep_NoNoneCheck(st, ed, now) ==
    LET matches == {row \in st.rows :
                        KeyMatch(row, ed) /\ (Get(ed, "event_date") # None => DateMatch(row, ed))}
    IN IF matches # {}
       THEN {Merged(st, row, ed, now) : row \in matches}
       ELSE IF Get(ed, "event_date") = None THEN {Skipped(st)} ELSE {Inserted(st, ed, now)}

\* The body of the loop of upsert_events for one draft: the set of sessions
\* it can lead to.  select ... limit(1) has no ORDER BY, so when several rows
\* match, any of them may be the one returned.
UpsertStep(st, ed, now) ==
    IF Get(ed, "event_date") = None
    THEN {Skipped(st)}
    ELSE LET matches == {row \in st.rows : Matching(row, ed)}
         IN IF matches # {}
            THEN {Merged(st, row, ed, now) : row \in matches}
            ELSE {Inserted(st, ed, now)}

\* The loop over event_dicts[k .. stop - 1]
RECURSIVE UpsertLoop(_, _, _, _, _)
UpsertLoop(st, event_dicts, k, stop, now) ==
    IF k >= stop
    THEN {st}
    ELSE UNION {UpsertLoop(s2, event_dicts, k + 1, stop, now) :
                    s2 \in UpsertStep(st, event_dicts[k], now)}

\* The drafts at which the store can raise: the SELECT of a draft that has an
\* event_date (0 stands for no error, Len + 1 for an error at db.commit()).
FailPoints(event_dicts) ==
    {0, Len(event_dicts) + 1} \cup
    {k \in 1..Len(event_dicts) : Get(event_dicts[k], "event_date") # None}

\* The sessions upsert_events can end in when the store raises at failAt:
\* the drafts before failAt have been handled, the others not.
UpsertSessions(rows, next, event_dicts, failAt, now) ==
    UpsertLoop([rows |-> rows, next |-> next, inserted |-> 0, trace |-> <<>>],
               event_dicts, 1,
               IF failAt = 0 THEN Len(event_dicts) + 1 ELSE failAt, now)

\* ------------------------------------------------------------ the drafts
\* Draft dicts as the adapters emit them (services/earnings.py,
\* services/macro_calendar.py, services/analyst.py, ...).  The datetimes cover
\* both ends of a UTC day, a later day, a naive reading and non-UTC offsets.
DraftDates ==
    {Utc(0, s, u) : s \in {0, LastSec}, u \in {0, LastSub}}
        \cup {Utc(d, 0, 0) : d \in 1..(NumDays - 1)}
        \cup {Naive(0, 0, LastSub),
              Zoned(1, 0, 0, MaxOffset),
              Zoned(0, LastSec, 0, 0 - MaxOffset)}

KeyDraft(ticker, event_type, title, event_date) ==
    [ticker |-> ticker, event_type |-> event_type, title |-> title,
     event_date |-> event_date]

\* drafts that differ in the fields the dedup query reads
KeyDrafts ==
    {KeyDraft(Some("AAPL"), "earnings", "AAPL Earnings Release", Some(dt)) : dt \in DraftDates}
        \cup {KeyDraft(Some("AAPL"), "earnings", "AAPL Earnings Release", None),
              KeyDraft(Some("AAPL"), "earnings", "AAPL Earnings (Historical)", Some(Utc(0, 0, 0))),
              KeyDraft(Some(""), "earnings", "AAPL Earnings Release", Some(Utc(0, 0, 0))),
              KeyDraft(None, "macro", "CPI", Some(Utc(0, 0, 0)))}

\* drafts for one logical event that differ in what they carry
PayloadDrafts ==
    LET key == KeyDraft(Some("AAPL"), "earnings", "AAPL Earnings Release",
                        Some(Utc(0, LastSec, 0)))
    IN {key @@ [status |-> "upcoming"],
        key @@ [status |-> "completed", eps_actual |-> Some(240)],
        key @@ [description |-> Some("")],
        key @@ [status |-> "completed", importance |-> "high",
                description |-> Some("reported"), eps_estimate |-> Some(200),
                eps_actual |-> Some(250), revenue_estimate |-> Some(10),
                revenue_actual |-> Some(11), report_time |-> Some("AMC"),
                macro_event_name |-> Some("CPI"), consensus |-> Some("3.0"),
                actual_value |-> Some("3.1"), previous_value |-> Some("2.9"),
                filing_type |-> Some("4"), filing_url |-> Some("url"),
                source |-> Some("yfinance"), raw_data |-> Some("raw"),
                analyst_firm |-> Some("Firm"), from_rating |-> Some("Hold"),
                to_rating |-> Some("Buy"), target_price |-> Some(300)],
        key @@ [status |-> "upcoming", importance |-> "low",
                description |-> Some("scheduled"), eps_actual |-> Some(0),
                revenue_actual |-> Some(0), actual_value |-> Some("")]}

Drafts == KeyDrafts \cup PayloadDrafts

Batches == UNION {[1..n -> Drafts] : n \in 0..MaxBatch}

\* ------------------------------------------------------------------ state
VARIABLES
    store,      \* the committed rows of the events table
    nextId,     \* the next identifier uuid4 hands out
    now,        \* the clock: one tick per call
    call,       \* the last call of upsert_events and what it did
    sess,       \* the database sessions of the ingestions that run concurrently
    cache,      \* Redis: key -> [value, ttl, at] as written by setex
    clock,      \* the wall clock in seconds
    redisUp,    \* whether the cache backend can be reached
    portfolio,  \* the portfolio_items rows: <<user, ticker>>
    bg,         \* the background task fetch_initial_data
    rd,         \* the read request being served, or the last one served
    reads,      \* the number of read requests so far
    job,        \* the last run of a job of tasks/scheduler.py
    sweep,      \* the startup sweep _initial_data_sync
    sched,      \* the scheduler's jobs: whether an instance runs, how the last ended
    app         \* the process: lifespan's progress and the requests it served

concVars == <<sess>>
sysVars == <<cache, clock, redisUp, portfolio, bg, rd, reads>>
jobVars == <<job, sweep, sched, app>>
vars == <<store, nextId, now, call, concVars, sysVars, jobVars>>

NoCall ==
    [batch |-> <<>>, before |-> {}, after |-> {}, failAt |-> 0, raised |-> FALSE,
     returned |-> None, logged |-> None, trace |-> <<>>, repeat |-> FALSE]

\* The ingestions that can be in flight together: a scheduled job or the
\* startup sweep (tasks/scheduler.py, main.py) and the background fetch of an
\* added ticker (api/portfolio.py), each inside its own async_session().
Sessions == 1..NumSessions

NoJob ==
    [name |-> "", by |-> "", tickers |-> <<>>, outs |-> <<>>, batch |-> <<>>,
     early |-> FALSE, raised |-> FALSE, before |-> {}, calls |-> <<>>]

\* the jobs setup_scheduler() adds
ScheduledJobs == {"earnings", "edgar", "macro", "summaries"}

\* the scheduler once started: no instance of any job runs
IdleSched == [n \in ScheduledJobs |-> [state |-> "idle", last |-> "", runs |-> 0]]

\* the process before lifespan() has run, and once it has yielded
NewApp == [scheduler |-> FALSE, sweeps |-> 0, ready |-> FALSE, served |-> {}, down |-> FALSE]
UpApp == [scheduler |-> TRUE, sweeps |-> 1, ready |-> TRUE, served |-> {}, down |-> FALSE]

NoSweep == [pc |-> 0, ran |-> <<>>, failed |-> FALSE]

IdleBg ==
    [pc |-> "idle", ticker |-> "", keys |-> {}, ingested |-> {}, purged |-> FALSE,
     failed |-> FALSE, raised |-> FALSE, racing |-> {}]

IdleRead ==
    [pc |-> "idle", req |-> <<>>, key |-> <<>>, hit |-> FALSE, queried |-> FALSE,
     value |-> None, error |-> ""]

IdleSession ==
    [pc |-> "idle", batch |-> <<>>, k |-> 1, now |-> 0, news |-> {}, objs |-> {},
     inserted |-> 0, trace |-> <<>>, began |-> {}]

Init ==
    /\ store = {}
    /\ nextId = 1
    /\ now = 0
    /\ call = NoCall
    /\ sess = [s \in Sessions |-> IdleSession]
    /\ cache = <<>>
    /\ clock = 0
    /\ redisUp = TRUE
    /\ portfolio = {}
    /\ bg = IdleBg
    /\ rd = IdleRead
    /\ reads = 0
    /\ job = NoJob
    /\ sweep = NoSweep
    /\ sched = IdleSched
    /\ app = UpApp

\* the committed rows after a call that keeps what it did before the error
AfterCall_KeepsPartial(rows, st, failAt) == st.rows

\* The committed rows after a call: db.commit() is the last statement of
\* upsert_events, so the session's rows are committed when nothing raised;
\* otherwise the exception leaves upsert_events, `async with async_session()`
\* closes the session and its transaction is rolled back.
AfterCall(rows, st, failAt) == IF failAt = 0 THEN st.rows ELSE rows

\* upsert_events(db, event_dicts) inside `async with async_session() as db`
\* (tasks/scheduler.py, api/portfolio.py), with the return value and the
\* figures of the log line.
UpsertEvents(event_dicts, failAt) ==
    /\ now < MaxCalls
    /\ \E st \in UpsertSessions(store, nextId, event_dicts, failAt, now + 1) :
        /\ now' = now + 1
        /\ nextId' = st.next
        /\ store' = AfterCall(store, st, failAt)
        /\ call' = [batch |-> event_dicts,
                    before |-> store,
                    after |-> AfterCall(store, st, failAt),
                    failAt |-> failAt,
                    raised |-> failAt # 0,
                    returned |-> IF failAt = 0 THEN Some(st.inserted) ELSE None,
                    logged |-> IF failAt = 0
                               THEN Some(<<st.inserted, Len(event_dicts) - st.inserted>>)
                               ELSE None,
                    trace |-> st.trace,
                    repeat |-> /\ failAt = 0
                               /\ ~call.raised
                               /\ call.batch = event_dicts
                               /\ call.after = store]
        /\ UNCHANGED <<concVars, jobVars, sysVars, jobVars>>

UpsertOk == \E event_dicts \in Batches : UpsertEvents(event_dicts, 0)

UpsertRaises ==
    \E event_dicts \in Batches :
        \E failAt \in FailPoints(event_dicts) \ {0} : UpsertEvents(event_dicts, failAt)

Next == UpsertOk \/ UpsertRaises

Spec == Init /\ [][Next]_vars

\* ------------------------------------------------- reading the last call
\* the draft handled at step k of the last call, and the rows the session saw
\* just before that step
DraftAt(k) == call.batch[k]
EntryAt(k) == call.trace[k]
ViewBefore(k) == IF k = 1 THEN call.before ELSE call.trace[k - 1].view
Steps(kind) == {k \in DOMAIN call.trace : call.trace[k].kind = kind}
HasDate(ed) == Get(ed, "event_date") # None
DraftInstant(ed) == Instant(EnsureAware(ed["event_date"][1]))

\* a row without its updated_at
Strip(rows) == {[f \in DOMAIN r \ {"updated_at"} |-> r[f]] : r \in rows}

\* the dedup key of the data model: ticker-or-absent, event_type, exact
\* title, UTC calendar day of event_date
DedupKey(row) == <<row.ticker, row.event_type, row.title, UtcDay(row.event_date)>>
DraftKey(ed) ==
    <<Get(ed, "ticker"), GetOr(ed, "event_type", ""), GetOr(ed, "title", ""),
      UtcDay(DraftInstant(ed))>>

\* ------------------------------------------------------------------ claims

\* C1 (as claimed): running upsert_events on the same batch a second time,
\* right after a first run, leaves the same records with the same values in
\* every field but updated_at, and inserts nothing.  (Stated for batches and
\* stores without an empty-string ticker, which is left to the claim on
\* ticker matching.)
C1_Idempotent ==
    LET plain == /\ \A k \in DOMAIN call.batch : Get(DraftAt(k), "ticker") # Some("")
                 /\ \A r \in call.before : r.ticker # Some("")
    IN (call.repeat /\ plain) =>
           (Strip(store) = Strip(call.before) /\ call.returned = Some(0))

\* C2 (as claimed): the store never holds two records with one dedup key.
\* (Stated for records whose ticker is not the empty string.)
C2_DedupKeyUnique ==
    \A r1, r2 \in store :
        r1.ticker # Some("") /\ DedupKey(r1) = DedupKey(r2) => r1 = r2

C4_StatusStep ==
    /\ \A r \in store : r.status = "completed" =>
           \E r2 \in store' : r2.id = r.id /\ r2.status = "completed"
    /\ \A k \in DOMAIN call'.trace : call'.trace[k].kind = "merged" =>
           call'.trace[k].new[1].status =
               IF GetOr(call'.batch[k], "status", "") = "completed"
               THEN "completed" ELSE call'.trace[k].old[1].status

C4_MonotonicStatus == [][C4_StatusStep]_vars

\* C4 witness: a completed record was merged with a draft whose status is upcoming.
C4_Witness ==
    \E k \in Steps("merged") :
        /\ EntryAt(k).old[1].status = "completed"
        /\ GetOr(DraftAt(k), "status", "") = "upcoming"

\* C5 (as claimed): a draft with an event_date is merged exactly when the
\* session sees a record with its ticker, event_type and title whose
\* event_date is on the same UTC calendar day, and then into such a record;
\* otherwise it is inserted.  (Drafts whose ticker is the empty string are
\* left to the claim on ticker matching.)
C5_SameUtcDayMatching ==
    \A k \in DOMAIN call.trace :
        HasDate(DraftAt(k)) /\ Get(DraftAt(k), "ticker") # Some("") =>
            LET same == {row \in ViewBefore(k) : DedupKey(row) = DraftKey(DraftAt(k))}
            IN IF same = {}
               THEN EntryAt(k).kind = "inserted"
               ELSE EntryAt(k).kind = "merged" /\ EntryAt(k).old[1] \in same

\* C6 (as claimed): the call reports three counts, inserted, merged and
\* skipped, which are the numbers of drafts inserted, merged and skipped.
C6_ThreeCounts ==
    call.logged # None =>
        LET r == call.logged[1]
        IN /\ Len(r) = 3
           /\ r[1] = Cardinality(Steps("inserted"))
           /\ r[2] = Cardinality(Steps("merged"))
           /\ r[3] = Cardinality(Steps("skipped"))

\* C6 (amended): the call returns inserted, the number of records it created,
\* and logs len(batch) - inserted as one figure for the merged and the
\* skipped drafts together; inserted + merged + skipped = number of drafts.
C6_Counts ==
    call.logged # None =>
        LET inserted == Cardinality(Steps("inserted"))
            merged == Cardinality(Steps("merged"))
            skipped == Cardinality(Steps("skipped"))
        IN /\ call.returned = Some(inserted)
           /\ inserted = Cardinality(store) - Cardinality(call.before)
           /\ inserted = Cardinality({r.id : r \in store} \ {r.id : r \in call.before})
           /\ call.logged = Some(<<inserted, merged + skipped>>)
           /\ inserted + merged + skipped = Len(call.batch)

\* C6 witness: a call that merged one draft and skipped another.
C6_Witness ==
    /\ call.logged # None
    /\ Steps("merged") # {}
    /\ Steps("skipped") # {}

\* C7: a draft without event_date is skipped: the call does not raise at it,
\* the rows are the same after it as before it, and the drafts after it are
\* handled.
C7_MissingDateSkipped ==
    /\ \A k \in DOMAIN call.batch : ~HasDate(DraftAt(k)) => call.failAt # k
    /\ \A k \in DOMAIN call.trace : ~HasDate(DraftAt(k)) =>
           /\ EntryAt(k).kind = "skipped"
           /\ EntryAt(k).view = ViewBefore(k)
    /\ ~call.raised => /\ Len(call.trace) = Len(call.batch)
                       /\ \A k \in DOMAIN call.trace :
                              HasDate(DraftAt(k)) => EntryAt(k).kind # "skipped"

\* C7 witness: a call that skipped a draft and then inserted the next one.
C7_Witness ==
    /\ ~call.raised
    /\ \E k \in Steps("skipped") : k + 1 \in Steps("inserted")

\* C8 (as claimed): an inserted record has a fresh identifier, importance
\* medium and status upcoming when the draft omits them, and every other
\* field of the draft with the draft's value (event_date as the same instant).
C8_InsertVerbatim ==
    \A k \in Steps("inserted") :
        LET ed == DraftAt(k)
            new == EntryAt(k).new[1]
        IN /\ new.id \notin {r.id : r \in ViewBefore(k)}
           /\ "importance" \notin DOMAIN ed => new.importance = "medium"
           /\ "status" \notin DOMAIN ed => new.status = "upcoming"
           /\ new.event_date = DraftInstant(ed)
           /\ \A f \in DOMAIN ed \ {"event_date"} : f \in DOMAIN new /\ new[f] = ed[f]

\* C9: a merge leaves every column but eps_actual, revenue_actual,
\* actual_value, description, status and updated_at as it was, sets updated_at
\* to the time of the call, and an inserted record has no ai_summary and no
\* ai_detail.
C9_MergeFrame ==
    /\ \A k \in Steps("merged") :
           LET old == EntryAt(k).old[1]
               new == EntryAt(k).new[1]
           IN /\ \A f \in DOMAIN old \ (FillFields \cup {"status", "updated_at"}) :
                      new[f] = old[f]
              /\ DOMAIN new = DOMAIN old
              /\ new.updated_at = now
    /\ \A k \in Steps("inserted") :
           /\ EntryAt(k).new[1].ai_summary = None
           /\ EntryAt(k).new[1].ai_detail = None

\* C9 witness: a merge that changed nothing but updated_at.
C9_Witness ==
    \E k \in Steps("merged") :
        LET old == EntryAt(k).old[1]
            new == EntryAt(k).new[1]
        IN /\ new.updated_at > old.updated_at
           /\ [new EXCEPT !.updated_at = old.updated_at] = old

\* C10 (as claimed): after a call that raised, the store holds what the
\* drafts before the failing one did.
C10_PartialKept ==
    call.raised =>
        store = IF call.trace = <<>> THEN call.before
                ELSE call.trace[Len(call.trace)].view

\* C10 (amended): after a call that raised at draft k, the drafts from k on
\* were not handled and the store is the store the call started from: what
\* the drafts before k did is discarded with the session's transaction.
C10_FailedCallChangesNothing ==
    call.raised => /\ store = call.before
                   /\ Len(call.trace) = call.failAt - 1

\* C10 witness: a call that raised at a draft after having inserted or merged
\* an earlier one.
C10_Witness ==
    /\ call.raised
    /\ call.failAt <= Len(call.batch)
    /\ Steps("inserted") \cup Steps("merged") # {}

\* ------------------------------------------------ concurrent ingestions
\* Several ingestions in flight, each in its own session and transaction
\* (db/database.py: async_session; tasks/scheduler.py and api/portfolio.py
\* open one per call).  A session record is
\*   pc        "idle", "loop" (inside upsert_events) or "done" (committed)
\*   batch, k  the drafts and the index of the next one
\*   now       the reading of datetime.now(timezone.utc) of this run
\*   news      the rows it added with db.add and has not committed
\*   objs      the rows it loaded and changed: [id, orig, cur], orig as loaded
\*   began     the committed rows when it started
\* The store is PostgreSQL at READ COMMITTED: a query sees what is committed
\* at the time of the query plus the session's own changes; a row the session
\* has already loaded keeps the attributes it has in the session.
ConcDrafts == PayloadDrafts \cup {KeyDraft(None, "macro", "CPI", Some(Utc(0, 0, 0)))}

ConcBatches == UNION {[1..n -> ConcDrafts] : n \in 1..MaxBatch}

Loaded(ss, row) == {o \in ss.objs : o.id = row.id}

Seen(ss, row) == IF Loaded(ss, row) # {} THEN (CHOOSE o \in Loaded(ss, row) : TRUE).cur ELSE row

SessionView(ss, rows) == {Seen(ss, row) : row \in rows} \cup ss.news

\* the UPDATE the unit of work emits for a changed row: it sets the columns
\* whose value differs from the loaded one
Flushed(row, o) == [f \in DOMAIN row |-> IF o.cur[f] # o.orig[f] THEN o.cur[f] ELSE row[f]]

\* db.commit() that leaves out a new row whose dedup key is already stored
Committed_OnConflict(rows, ss) ==
    {IF Loaded(ss, row) # {} THEN Flushed(row, CHOOSE o \in Loaded(ss, row) : TRUE) ELSE row :
        row \in rows}
        \cup {n \in ss.news : \A r \in rows : DedupKey(r) # DedupKey(n)}

\* db.commit() that writes the new rows but not the changed ones
Committed_InsertsOnly(rows, ss) == rows \cup ss.news

\* db.commit(): the committed rows once the session's changes are applied
Committed(rows, ss) ==
    {IF Loaded(ss, row) # {} THEN Flushed(row, CHOOSE o \in Loaded(ss, row) : TRUE) ELSE row :
        row \in rows}
        \cup ss.news

\* what a step of the loop leaves in the session: the entry says what was
\* done with the draft
Pending(ss, rows, entry) ==
    IF entry.kind = "inserted"
    THEN [ss EXCEPT !.news = @ \cup {entry.new[1]}]
    ELSE IF entry.kind = "merged"
    THEN LET old == entry.old[1]
             new == entry.new[1]
         IN IF old \in ss.news
            THEN [ss EXCEPT !.news = Replace(@, old, new)]
            ELSE LET was == {o \in ss.objs : o.id = old.id}
                     orig == IF was # {} THEN (CHOOSE o \in was : TRUE).orig
                             ELSE CHOOSE r \in rows : r.id = old.id
                 IN [ss EXCEPT !.objs = (@ \ was) \cup
                                          {[id |-> old.id, orig |-> orig, cur |-> new]}]
    ELSE ss

\* a caller enters upsert_events with a batch that is not empty
BeginIngest(s, event_dicts) ==
    /\ sess[s].pc = "idle"
    /\ now' = now + 1
    /\ sess' = [sess EXCEPT ![s] = [IdleSession EXCEPT !.pc = "loop", !.batch = event_dicts,
                                                       !.now = now + 1, !.began = store]]
    /\ UNCHANGED <<store, nextId, call, sysVars, jobVars>>

\* one turn of the loop of upsert_events in session s: the SELECT and what
\* follows it up to the next await
StepDraft(s) ==
    LET ss == sess[s]
    IN /\ ss.pc = "loop"
       /\ ss.k <= Len(ss.batch)
       /\ \E st \in UpsertStep([rows |-> SessionView(ss, store), next |-> nextId,
                                inserted |-> ss.inserted, trace |-> ss.trace],
                               ss.batch[ss.k], ss.now) :
            /\ nextId' = st.next
            /\ sess' = [sess EXCEPT ![s] =
                            [Pending(ss, store, st.trace[Len(st.trace)])
                                EXCEPT !.k = ss.k + 1, !.inserted = st.inserted,
                                       !.trace = st.trace]]
       /\ UNCHANGED <<store, now, call, sysVars, jobVars>>

\* await db.commit() at the end of upsert_events
CommitIngest(s) ==
    LET ss == sess[s]
    IN /\ ss.pc = "loop"
       /\ ss.k > Len(ss.batch)
       /\ store' = Committed(store, ss)
       /\ sess' = [sess EXCEPT ![s].pc = "done"]
       /\ UNCHANGED <<nextId, now, call, sysVars, jobVars>>

Begin == \E s \in Sessions : \E event_dicts \in ConcBatches : BeginIngest(s, event_dicts)
Step == \E s \in Sessions : StepDraft(s)
Commit == \E s \in Sessions : CommitIngest(s)

NextConc == Begin \/ Step \/ Commit

SpecConc == Init /\ [][NextConc]_vars

\* the steps of session s that did `kind`, and the row such a step made
StepsOf(s, kind) == {k \in DOMAIN sess[s].trace : sess[s].trace[k].kind = kind}
RowOf(s, k) == sess[s].trace[k].new[1]

\* a row without the columns a run sets by itself
Content(rows) == {[f \in DOMAIN r \ {"id", "created_at", "updated_at"} |-> r[f]] : r \in rows}

\* C11: when two ingestions have both committed and each of them inserted
\* for a draft of one dedup key (each found no match for it), the store holds
\* both rows: two different records with one dedup key.
C11_RaceLeavesTwoRecords ==
    \A s1, s2 \in Sessions :
        (s1 # s2 /\ sess[s1].pc = "done" /\ sess[s2].pc = "done") =>
            \A k1 \in StepsOf(s1, "inserted") : \A k2 \in StepsOf(s2, "inserted") :
                DraftKey(sess[s1].batch[k1]) = DraftKey(sess[s2].batch[k2]) =>
                    \E r1, r2 \in store :
                        /\ r1.id = RowOf(s1, k1).id
                        /\ r2.id = RowOf(s2, k2).id
                        /\ r1 # r2
                        /\ DedupKey(r1) = DedupKey(r2)

\* two committed ingestions that both inserted for one dedup key
C11_Witness ==
    \E s1, s2 \in Sessions :
        /\ s1 # s2 /\ sess[s1].pc = "done" /\ sess[s2].pc = "done"
        /\ \E k1 \in StepsOf(s1, "inserted") : \E k2 \in StepsOf(s2, "inserted") :
              /\ DraftKey(sess[s1].batch[k1]) = DraftKey(sess[s2].batch[k2])
              /\ Cardinality({r \in store : DedupKey(r) = DraftKey(sess[s1].batch[k1])}) >= 2

\* C12 (as claimed): when every concurrent run of one job over the same
\* drafts has finished, the store holds what a single run of that job leaves.
C12_RedundantRunsSafe ==
    (\A s \in Sessions : sess[s].pc = "done" /\ sess[s].batch = sess[1].batch) =>
        \E st \in UpsertSessions({}, 1, sess[1].batch, 0, 1) :
            /\ Content(store) = Content(st.rows)
            /\ Cardinality(store) = Cardinality(st.rows)

\* ------------------------------------------------- the cached read paths
\* The users (api/portfolio.py: get_or_create_user, one per device) and the
\* ticker symbols requests name.
Users == {"u1", "u2"}
Tickers == {"AAPL", "MSFT"}
AddedTickers == {"AAPL"}

\* the TTLs, in seconds (daily_summary.py and macro.py both call theirs
\* CACHE_TTL)
CACHE_TTL_UPCOMING == 30 * 60
CACHE_TTL_TODAY == 15 * 60
CACHE_TTL_STOCK == 60 * 60
CACHE_TTL_DAILY_SUMMARY == 60 * 60
CACHE_TTL_MACRO == 6 * 60 * 60
CACHE_TTL_PROFILE == 60 * 60
CACHE_TTL_EARNINGS_HIST == 6 * 60 * 60

\* The wall clock counts real seconds; an instant of the scaled clock of the
\* event dates lasts TickSeconds of them.
SecondsPerDay == 24 * 60 * 60
TickSeconds == SecondsPerDay \div TicksPerDay
TodayStart(t) == t - (t % SecondsPerDay)
MonthOf(day) == day \div DaysPerMonth

\* str(uuid), datetime.isoformat() of a UTC instant (date, second of the
\* day, sub-second), json.dumps / json.loads of a value made of dicts, lists,
\* strings, numbers and None
Str(v) == <<"str", v>>
IsoFormat(t) == <<UtcDay(t), (t % TicksPerDay) \div SubPerSec, t % SubPerSec>>
JsonDumps(v) == <<"json", v>>
JsonLoads(text) == text[2]

\* _event_to_response(e); the Event class has none of the analyst columns,
\* so getattr(e, ..., None) is None
EventToResponse(e) ==
    [id |-> Str(e.id), ticker |-> e.ticker, event_type |-> e.event_type,
     event_date |-> IsoFormat(e.event_date), title |-> e.title,
     description |-> e.description, importance |-> e.importance, status |-> e.status,
     eps_estimate |-> e.eps_estimate, eps_actual |-> e.eps_actual,
     revenue_estimate |-> e.revenue_estimate, revenue_actual |-> e.revenue_actual,
     report_time |-> e.report_time, macro_event_name |-> e.macro_event_name,
     consensus |-> e.consensus, actual_value |-> e.actual_value,
     previous_value |-> e.previous_value, filing_type |-> e.filing_type,
     filing_url |-> e.filing_url, analyst_firm |-> None, from_rating |-> None,
     to_rating |-> None, target_price |-> None, ai_summary |-> e.ai_summary]

Responses(events) == [i \in DOMAIN events |-> EventToResponse(events[i])]

\* ORDER BY: the sequences that list `rows` by ascending key, key[r] being a
\* pair of integers; rows with equal keys come in any order
LexLess(a, b) == a[1] < b[1] \/ (a[1] = b[1] /\ a[2] < b[2])

RECURSIVE Ordered(_, _)
Ordered(rows, key) ==
    IF rows = {}
    THEN {<<>>}
    ELSE UNION {{<<r>> \o rest : rest \in Ordered(rows \ {r}, key)} :
                    r \in {m \in rows : \A q \in rows : ~LexLess(key[q], key[m])}}

\* the query without its .limit(n)
Limit_All(events, n) == events

Limit(events, n) == SubSeq(events, 1, IF Len(events) < n THEN Len(events) ELSE n)

\* the place of an importance string in the order of the column's text
ImportanceRank(importance) ==
    CASE importance = "high" -> 1
      [] importance = "low" -> 2
      [] importance = "medium" -> 3
      [] OTHER -> 0

\* _get_user_tickers(db, user)
\* _get_user_tickers without the filter on the user
UserTickers_All(items, user) == {it[2] : it \in items}

UserTickers(items, user) == {it[2] : it \in {i \in items : i[1] = user}}

\* the rows of the UTC day of t, importance descending, event_date ascending
TodayRows(rows, t) ==
    Ordered({r \in rows : /\ r.event_date * TickSeconds >= TodayStart(t)
                          /\ r.event_date * TickSeconds < TodayStart(t) + SecondsPerDay},
            [r \in rows |-> <<0 - ImportanceRank(r.importance), r.event_date>>])

\* get_upcoming_events: the query and the response
UpcomingView(rows, tickers, t) ==
    {Responses(events) :
        events \in Ordered({r \in rows :
                                /\ r.event_date * TickSeconds >= t
                                /\ IF tickers # {}
                                   THEN r.ticker = None \/
                                        (r.ticker # None /\ r.ticker[1] \in tickers)
                                   ELSE r.ticker = None},
                           [r \in rows |-> <<r.event_date, 0 - ImportanceRank(r.importance)>>])}

\* get_today_events
TodayView(rows, t) == {Responses(events) : events \in TodayRows(rows, t)}

\* get_stock_events
StockEventsView(rows, ticker, limit) ==
    {Responses(Limit(events, limit)) :
        events \in Ordered({r \in rows : r.ticker = Some(ticker)},
                           [r \in rows |-> <<0 - r.event_date, 0>>])}

\* datetime(year, mon, 1, tzinfo=timezone.utc) as a day since the epoch; a
\* month is the pair of its year and its number within the year
FirstDay(start) == (start[1] * MonthsPerYear + start[2] - 1) * DaysPerMonth

\* the month after `start` without the carry into the year
MonthEnd_SameYear(start) ==
    IF start[2] = MonthsPerYear THEN <<start[1], 1>> ELSE <<start[1], start[2] + 1>>

\* `end` of get_macro_calendar: the first of the next month, January of the
\* next year after December
MonthEnd(start) ==
    IF start[2] = MonthsPerYear THEN <<start[1] + 1, 1>> ELSE <<start[1], start[2] + 1>>

\* get_macro_calendar, start being the month asked for
MacroCalendarView(rows, start) ==
    {Responses(events) :
        events \in Ordered({r \in rows : /\ r.event_type = "macro"
                                         /\ r.event_date >= FirstDay(start) * TicksPerDay
                                         /\ r.event_date < FirstDay(MonthEnd(start)) * TicksPerDay},
                           [r \in rows |-> <<r.event_date, 0>>])}

\* get_daily_summary: response.model_dump()
DailySummaryView(rows, tickers, t) ==
    {LET macro_events == Responses(SelectSeq(events, LAMBDA e : e.ticker = None))
         portfolio_events ==
             Responses(SelectSeq(events, LAMBDA e : e.ticker # None /\ e.ticker[1] \in tickers))
         combined == portfolio_events \o macro_events
     IN [date |-> t \div SecondsPerDay,
         total_events |-> Len(combined),
         high_importance |-> Cardinality({i \in DOMAIN combined :
                                              combined[i].importance = "high"}),
         events |-> combined,
         macro_events |-> macro_events,
         portfolio_events |-> portfolio_events] :
        events \in TodayRows(rows, t)}

\* round(n / d) for d > 0, halves to the even neighbour
\* a division that drops the digits after the last one kept
RoundDiv_Floor(n, d) == n \div d

RoundDiv(n, d) ==
    LET q == n \div d
        r == n % d
    IN IF 2 * r < d THEN q
       ELSE IF 2 * r > d THEN q + 1
       ELSE IF q % 2 = 0 THEN q ELSE q + 1

Abs(n) == IF n < 0 THEN 0 - n ELSE n

\* one item of the earnings history; surprise_percent in hundredths of a
\* percent (round(..., 2))
EarningsHistoryItem(e) ==
    LET eps_est == e.eps_estimate
        eps_act == e.eps_actual
        both == eps_act # None /\ eps_est # None
    IN [event_date |-> IsoFormat(e.event_date),
        eps_estimate |-> eps_est,
        eps_actual |-> eps_act,
        revenue_estimate |-> e.revenue_estimate,
        revenue_actual |-> e.revenue_actual,
        beat |-> IF both THEN Some(eps_act[1] >= eps_est[1]) ELSE None,
        surprise_percent |->
            IF both /\ eps_est[1] # 0
            THEN Some(RoundDiv((eps_act[1] - eps_est[1]) * 10000, Abs(eps_est[1])))
            ELSE None,
        status |-> e.status]

\* get_earnings_history: response.model_dump(); beat_rate in tenths of a
\* percent (round(..., 1))
EarningsHistoryView(rows, ticker, limit) ==
    {LET events == Limit(all, limit)
         history == [i \in DOMAIN events |-> EarningsHistoryItem(events[i])]
         total_with_data == Cardinality({i \in DOMAIN history : history[i].beat # None})
         beats == Cardinality({i \in DOMAIN history : history[i].beat = Some(TRUE)})
     IN [ticker |-> ticker,
         history |-> history,
         beat_rate |-> IF total_with_data > 0
                       THEN Some(RoundDiv(beats * 1000, total_with_data)) ELSE None,
         total_quarters |-> Len(history)] :
        all \in Ordered({r \in rows : /\ r.ticker = Some(ticker)
                                      /\ r.event_type = "earnings"
                                      /\ r.status = "completed"},
                        [r \in rows |-> <<0 - r.event_date, 0>>])}

\* fetch_stock_profile(ticker): the provider's answer, None when it fails
ProfileView(ticker) ==
    {Some([ticker |-> ticker, company_name |-> ticker, currency |-> "USD"]), None}

\* The read requests: the view asked for and its parameters.  `month` is the
\* query string of the macro calendar (None when absent).
EVENTS_LIMIT == 50
EARNINGS_LIMIT == 8

Requests ==
    {[view |-> "upcoming", user |-> u] : u \in Users}
        \cup {[view |-> "today"]}
        \cup {[view |-> "stock_events", ticker |-> t, limit |-> n] :
                  t \in Tickers, n \in {EVENTS_LIMIT}}
        \cup {[view |-> "macro_calendar", month |-> m] : m \in {None, Some(<<Some(0), Some(2)>>)}}
        \cup {[view |-> "daily_summary", user |-> u] : u \in Users}
        \cup {[view |-> "earnings_history", ticker |-> t, limit |-> n] :
                  t \in Tickers, n \in {EARNINGS_LIMIT}}
        \cup {[view |-> "profile", ticker |-> t] : t \in Tickers}

\* The month a query string names.  The string is given by the fields that
\* month.split("-") finds in it, a field being Some(n) when int() reads the
\* number n in it and None when int() raises; the result is None when the
\* unpacking into year and mon, int() or datetime() raises.
ParseMonth(month) ==
    IF /\ Len(month) = 2
       /\ month[1] # None
       /\ month[2] # None
       /\ month[2][1] \in 1..MonthsPerYear
    THEN Some(<<month[1][1], month[2][1]>>)
    ELSE None

\* datetime.now(timezone.utc).replace(day=1, hour=0, ...) as a month
CurrentMonth(t) ==
    LET m == MonthOf(t \div SecondsPerDay)
    IN <<m \div MonthsPerYear, (m % MonthsPerYear) + 1>>

\* `start` of get_macro_calendar: the month asked for, the current month
\* when there is none or it does not parse
MonthStart(month, t) ==
    IF month # None /\ month[1] # <<>> /\ ParseMonth(month[1]) # None
    THEN ParseMonth(month[1])[1]
    ELSE CurrentMonth(t)

\* start.strftime('%Y-%m')
StrfMonth(start) == <<Str(start[1]), "-", Str(start[2])>>

\* the cache key of a request
CacheKey(req, t) ==
    CASE req.view = "upcoming" -> <<"events:upcoming", req.user>>
      [] req.view = "today" -> <<"events:today">>
      [] req.view = "stock_events" -> <<"stock:events", req.ticker>>
      [] req.view = "macro_calendar" -> <<"macro:calendar", StrfMonth(MonthStart(req.month, t))>>
      [] req.view = "daily_summary" -> <<"daily_summary", req.user>>
      [] req.view = "earnings_history" -> <<"stock:earnings_hist", req.ticker>>
      [] req.view = "profile" -> <<"stock:profile", req.ticker>>

\* the TTL a read path passes to setex
Ttl(view) ==
    CASE view = "upcoming" -> CACHE_TTL_UPCOMING
      [] view = "today" -> CACHE_TTL_TODAY
      [] view = "stock_events" -> CACHE_TTL_STOCK
      [] view = "macro_calendar" -> CACHE_TTL_MACRO
      [] view = "daily_summary" -> CACHE_TTL_DAILY_SUMMARY
      [] view = "earnings_history" -> CACHE_TTL_EARNINGS_HIST
      [] view = "profile" -> CACHE_TTL_PROFILE

\* what a read path computes on a miss: the responses the query can give
\* (Some(response)), None for the 404 of the profile
Views(req, rows, items, t) ==
    CASE req.view = "upcoming" ->
             {Some(v) : v \in UpcomingView(rows, UserTickers(items, req.user), t)}
      [] req.view = "today" -> {Some(v) : v \in TodayView(rows, t)}
      [] req.view = "stock_events" ->
             {Some(v) : v \in StockEventsView(rows, req.ticker, req.limit)}
      [] req.view = "macro_calendar" ->
             {Some(v) : v \in MacroCalendarView(rows, MonthStart(req.month, t))}
      [] req.view = "daily_summary" ->
             {Some(v) : v \in DailySummaryView(rows, UserTickers(items, req.user), t)}
      [] req.view = "earnings_history" ->
             {Some(v) : v \in EarningsHistoryView(rows, req.ticker, req.limit)}
      [] req.view = "profile" -> ProfileView(req.ticker)

\* Redis: the keys that have not expired, GET, SETEX, KEYS <prefix>*, DEL
Live(c, t) == {k \in DOMAIN c : t <= c[k].at + c[k].ttl}

CacheGet_NoExpiry(c, key, t) == IF key \in DOMAIN c THEN Some(c[key].value) ELSE None

CacheGet(c, key, t) == IF key \in Live(c, t) THEN Some(c[key].value) ELSE None

SetEx_NoWrite(c, key, ttl, value, t) == c

SetEx(c, key, ttl, value, t) ==
    [k \in Live(c, t) \cup {key} |->
        IF k = key THEN [value |-> value, ttl |-> ttl, at |-> t] ELSE c[k]]

Keys(c, prefix, t) == {k \in Live(c, t) : k[1] = prefix}

Delete(c, ks) == [k \in DOMAIN c \ ks |-> c[k]]

\* ------------------------------------------------ what the providers give
\* yfinance and EDGAR answer with the same data whenever they answer; a
\* fetch can fail as a whole, and the earnings fetch can fail at the history.
EarningsTitle(ticker, historical) ==
    CASE ticker = "AAPL" /\ ~historical -> "AAPL Earnings Release"
      [] ticker = "AAPL" /\ historical -> "AAPL Earnings (Historical)"
      [] ticker = "MSFT" /\ ~historical -> "MSFT Earnings Release"
      [] ticker = "MSFT" /\ historical -> "MSFT Earnings (Historical)"

InsiderTitle(ticker) ==
    CASE ticker = "AAPL" -> "AAPL Form 4"
      [] ticker = "MSFT" -> "MSFT Form 4"

EarningsOutcomes == {"ok", "no_history", "failed"}
InsiderOutcomes == {"ok", "failed"}

\* fetch_earnings_for_ticker(ticker)
EarningsDrafts(ticker, outcome) ==
    LET upcoming == [ticker |-> Some(ticker), event_type |-> "earnings",
                     event_date |-> Some(Utc(NumDays - 1, 0, 0)),
                     title |-> EarningsTitle(ticker, FALSE),
                     description |-> Some("scheduled"), importance |-> "high",
                     status |-> "upcoming", eps_estimate |-> Some(200),
                     revenue_estimate |-> None, report_time |-> Some("AMC"),
                     source |-> Some("yfinance"), raw_data |-> Some("raw")]
        historical == [ticker |-> Some(ticker), event_type |-> "earnings",
                       event_date |-> Some(Utc(0, 0, 0)),
                       title |-> EarningsTitle(ticker, TRUE),
                       description |-> Some("reported"), importance |-> "medium",
                       status |-> "completed", eps_estimate |-> Some(200),
                       eps_actual |-> Some(250), source |-> Some("yfinance")]
    IN CASE outcome = "ok" -> <<upcoming, historical>>
         [] outcome = "no_history" -> <<upcoming>>
         [] outcome = "moved" ->
                <<[upcoming EXCEPT
                       !.event_date = Some(Zoned(NumDays - 1, 0, 0, MaxOffset))]>>
         [] outcome = "failed" -> <<>>

\* fetch_insider_transactions(ticker)
InsiderDrafts(ticker, outcome) ==
    IF outcome = "ok"
    THEN <<[ticker |-> Some(ticker), event_type |-> "insider",
            event_date |-> Some(Utc(0, 0, 0)), title |-> InsiderTitle(ticker),
            description |-> Some("Form 4"), importance |-> "medium",
            status |-> "completed", filing_type |-> Some("4"),
            filing_url |-> Some("url"), source |-> Some("edgar"),
            raw_data |-> Some("raw")]>>
    ELSE <<>>

\* the rows a run of upsert_events inserted or merged
Touched(st) == {st.trace[k].new[1].id : k \in {j \in DOMAIN st.trace : st.trace[j].kind # "skipped"}}

\* ---------------------------------------------- adding a ticker, the purge
\* add_ticker(body) by `user`, for a ticker that passes the checks: the row is
\* committed and fetch_initial_data(ticker) is handed to the background
\* tasks.  One background task is in flight at a time.
AddTicker(user, ticker) ==
    /\ <<user, ticker>> \notin portfolio
    /\ Cardinality(portfolio) < MaxAdds
    /\ bg.pc \in {"idle", "done"}
    /\ portfolio' = portfolio \cup {<<user, ticker>>}
    /\ bg' = [IdleBg EXCEPT !.pc = "earnings", !.ticker = ticker]
    /\ UNCHANGED <<store, nextId, now, call, concVars, jobVars, cache, clock, redisUp, rd, reads>>

\* fetch_initial_data: the first try block
BgFetchEarnings ==
    /\ bg.pc = "earnings"
    /\ \E outcome \in EarningsOutcomes :
        LET earnings_events == EarningsDrafts(bg.ticker, outcome)
        IN IF earnings_events # <<>>
           THEN \E st \in UpsertSessions(store, nextId, earnings_events, 0, clock \div TickSeconds) :
                   /\ store' = st.rows
                   /\ nextId' = st.next
                   /\ bg' = [bg EXCEPT !.pc = "insider", !.ingested = @ \cup Touched(st)]
           ELSE /\ bg' = [bg EXCEPT !.pc = "insider"]
                /\ UNCHANGED <<store, nextId>>
    /\ UNCHANGED <<now, call, concVars, jobVars, cache, clock, redisUp, portfolio, rd, reads>>

\* fetch_initial_data: the second try block
BgFetchInsider ==
    /\ bg.pc = "insider"
    /\ \E outcome \in InsiderOutcomes :
        LET insider_events == InsiderDrafts(bg.ticker, outcome)
        IN IF insider_events # <<>>
           THEN \E st \in UpsertSessions(store, nextId, insider_events, 0, clock \div TickSeconds) :
                   /\ store' = st.rows
                   /\ nextId' = st.next
                   /\ bg' = [bg EXCEPT !.pc = "scan_upcoming", !.ingested = @ \cup Touched(st)]
           ELSE /\ bg' = [bg EXCEPT !.pc = "scan_upcoming"]
                /\ UNCHANGED <<store, nextId>>
    /\ UNCHANGED <<now, call, concVars, jobVars, cache, clock, redisUp, portfolio, rd, reads>>

\* the purge without its try/except: the error leaves the task
PurgeFailed_Raises(b) == [b EXCEPT !.pc = "done", !.failed = TRUE, !.raised = TRUE]

\* `except Exception as e: logger.warning(...)` around the purge
PurgeFailed(b) == [b EXCEPT !.pc = "done", !.failed = TRUE]

\* keys_to_delete without the key of the ticker
KeysToDelete_NoStock(found, ticker) == found

\* keys_to_delete once f"stock:events:{ticker}" is appended
KeysToDelete(found, ticker) == found \cup {<<"stock:events", ticker>>}

\* await redis_client.keys("events:upcoming:*")
BgScanUpcoming ==
    /\ bg.pc = "scan_upcoming"
    /\ bg' = IF redisUp
             THEN [bg EXCEPT !.pc = "scan_today", !.keys = Keys(cache, "events:upcoming", clock)]
             ELSE PurgeFailed(bg)
    /\ UNCHANGED <<store, nextId, now, call, concVars, jobVars, cache, clock, redisUp, portfolio, rd, reads>>

\* await redis_client.keys("events:today") and the append
BgScanToday ==
    /\ bg.pc = "scan_today"
    /\ bg' = IF redisUp
             THEN [bg EXCEPT !.pc = "delete",
                             !.keys = KeysToDelete(@ \cup Keys(cache, "events:today", clock),
                                                   bg.ticker)]
             ELSE PurgeFailed(bg)
    /\ UNCHANGED <<store, nextId, now, call, concVars, jobVars, cache, clock, redisUp, portfolio, rd, reads>>

\* await redis_client.delete(*keys_to_delete)
BgDelete ==
    /\ bg.pc = "delete"
    /\ IF redisUp
       THEN /\ cache' = (IF bg.keys # {} THEN Delete(cache, bg.keys) ELSE cache)
            /\ bg' = [bg EXCEPT !.pc = "done", !.purged = TRUE]
       ELSE /\ bg' = PurgeFailed(bg)
            /\ cache' = cache
    /\ UNCHANGED <<store, nextId, now, call, concVars, jobVars, clock, redisUp, portfolio, rd, reads>>

\* ------------------------------------------------------ serving a read
\* A read path up to its query: `cached = await redis_client.get(key)`,
\* `if cached: return json.loads(cached)`, else the query and the response
\* built from it.  Nothing catches an error of the cache client, so the
\* request fails when the cache cannot be reached.  rd records the request:
\*   hit       whether the cache answered
\*   queried   whether the read path queried the store
\*   value     the response (None when the request failed)
\*   error     "" or what made the request fail
ReadGet(req) ==
    LET key == CacheKey(req, clock)
        cached == CacheGet(cache, key, clock)
        this == [IdleRead EXCEPT !.req = req, !.key = key]
    IN /\ app.ready
       /\ ~app.down
       /\ rd.pc \in {"idle", "done"}
       /\ reads < MaxReads
       /\ reads' = reads + 1
       /\ app' = [app EXCEPT !.served = @ \cup {sweep.pc}]
       /\ IF ~redisUp
          THEN rd' = [this EXCEPT !.pc = "done", !.error = "cache"]
          ELSE IF Truthy(cached)
          THEN rd' = [this EXCEPT !.pc = "done", !.hit = TRUE,
                                  !.value = Some(JsonLoads(cached[1]))]
          ELSE \E response \in Views(req, store, portfolio, clock) :
                  IF response = None
                  THEN rd' = [this EXCEPT !.pc = "done", !.queried = TRUE,
                                          !.error = "not_found"]
                  ELSE rd' = [this EXCEPT !.pc = "queried", !.queried = TRUE,
                                          !.value = response]
       /\ UNCHANGED <<store, nextId, now, call, concVars, job, sweep, sched, cache, clock, redisUp, portfolio, bg>>

\* The rest of a read path after a miss: `await redis_client.setex(key, TTL,
\* json.dumps(response))` and `return response`.  bg.racing collects the keys
\* written while a purge is between its first scan and its delete.
ReadSet ==
    /\ rd.pc = "queried"
    /\ IF ~redisUp
       THEN /\ rd' = [rd EXCEPT !.pc = "done", !.value = None, !.error = "cache"]
            /\ UNCHANGED <<cache, bg>>
       ELSE /\ cache' = SetEx(cache, rd.key, Ttl(rd.req.view), JsonDumps(rd.value[1]), clock)
            /\ rd' = [rd EXCEPT !.pc = "done"]
            /\ bg' = IF bg.pc \in {"scan_today", "delete"}
                     THEN [bg EXCEPT !.racing = @ \cup {rd.key}]
                     ELSE bg
    /\ UNCHANGED <<store, nextId, now, call, concVars, jobVars, clock, redisUp, portfolio, reads>>

\* the cache backend goes away and comes back
RedisFails ==
    /\ redisUp
    /\ redisUp' = FALSE
    /\ UNCHANGED <<store, nextId, now, call, concVars, jobVars, cache, clock, portfolio, bg, rd, reads>>

RedisRecovers ==
    /\ ~redisUp
    /\ redisUp' = TRUE
    /\ UNCHANGED <<store, nextId, now, call, concVars, jobVars, cache, clock, portfolio, bg, rd, reads>>

Add == \E user \in Users : \E ticker \in AddedTickers : AddTicker(user, ticker)
Read == \E req \in Requests : ReadGet(req)

NextCache ==
    \/ Add
    \/ BgFetchEarnings
    \/ BgFetchInsider
    \/ BgScanUpcoming
    \/ BgScanToday
    \/ BgDelete
    \/ Read
    \/ ReadSet
    \/ RedisFails
    \/ RedisRecovers

SpecCache == Init /\ [][NextCache]_vars

\* a step that takes a request in, and a step that ends the background task
ReadArrives == reads' = reads + 1
BgFinishes == bg.pc # "done" /\ bg'.pc = "done"

\* the keys the purge after adding `ticker` is about
PurgeKeys(c, ticker, t) ==
    {k \in Live(c, t) : \/ k[1] \in {"events:upcoming", "events:today"}
                        \/ k = <<"stock:events", ticker>>}

\* C13: a read that finds its key in the cache answers with the cached value
\* as json.loads gives it back, queries nothing and leaves the cache as it
\* is; a read that misses answers with a view computed from the rows and the
\* portfolio of that moment, and its setex puts that same value under the key
\* with the TTL of the view.
C13_ReadStep ==
    /\ (ReadArrives /\ rd'.hit) =>
          /\ rd'.key \in Live(cache, clock)
          /\ rd'.value = Some(JsonLoads(cache[rd'.key].value))
          /\ ~rd'.queried
          /\ rd'.pc = "done"
          /\ cache' = cache
    /\ (ReadArrives /\ rd'.queried) =>
          /\ rd'.key \notin Live(cache, clock)
          /\ rd'.pc = "queried" => rd'.value \in Views(rd'.req, store, portfolio, clock)
    /\ (rd.pc = "queried" /\ rd'.pc = "done" /\ rd'.error = "") =>
          /\ rd'.value = rd.value
          /\ rd.key \in Live(cache', clock')
          /\ cache'[rd.key] = [value |-> JsonDumps(rd.value[1]),
                               ttl |-> Ttl(rd.req.view), at |-> clock]
          /\ \A k \in Live(cache, clock) \ {rd.key} : k \in DOMAIN cache' /\ cache'[k] = cache[k]

C13_CacheAside == [][C13_ReadStep]_vars

\* a hit on the events of a stock that returns a list with an event in it
C13_Witness ==
    /\ rd.pc = "done" /\ rd.hit
    /\ rd.req.view = "stock_events"
    /\ Len(rd.value[1]) > 0

C16_PurgeStep ==
    /\ (BgFinishes /\ bg'.purged) =>
          /\ <<"stock:events", bg'.ticker>> \notin Live(cache', clock')
          /\ PurgeKeys(cache', bg'.ticker, clock') \subseteq bg'.racing
          /\ bg.pc = "delete"
          /\ store' = store
    /\ (\E k \in Live(cache, clock) : k \notin Live(cache', clock)) =>
          (bg.pc = "delete" /\ BgFinishes /\ bg'.purged)

C17_PurgeFailureSwallowed ==
    (bg.pc = "done" /\ bg.failed) =>
        /\ ~bg.raised
        /\ ~bg.purged
        /\ \A id \in bg.ingested : \E r \in store : r.id = id

\* a background fetch that ingested rows and then failed to purge
C17_Witness == bg.pc = "done" /\ bg.failed /\ bg.ingested # {}

\* C18 (as claimed): no cached read path fails because the cache cannot be
\* reached; it answers as on a miss.
C18_OutageIsAMiss == rd.pc = "done" => (rd.error # "cache" /\ (~rd.hit => rd.queried))

\* ------------------------------------------------- the jobs and the sweep
\* _STATIC_EVENTS: name, day, importance
STATIC_EVENTS ==
    <<[name |-> "CPI", day |-> 0, importance |-> "high"],
      [name |-> "PPI", day |-> NumDays - 1, importance |-> "medium"],
      [name |-> "ISM Manufacturing PMI", day |-> 2 * DaysPerMonth, importance |-> "medium"]>>

\* _parse_static_events() as of second t
ParseStaticEvents(t) ==
    [i \in DOMAIN STATIC_EVENTS |->
        LET ev == STATIC_EVENTS[i]
            status == IF ev.day * SecondsPerDay < t THEN "completed" ELSE "upcoming"
        IN [ticker |-> None, event_type |-> "macro",
            event_date |-> Some(Utc(ev.day, 0, 0)), title |-> ev.name,
            description |-> Some(status), importance |-> ev.importance,
            status |-> status, macro_event_name |-> Some(ev.name),
            source |-> Some("static_calendar"), raw_data |-> Some("raw")]]

\* fetch_macro_events() as of second t: from_date is now with day 1, to_date
\* the same time of day on the first of the month after the next
MacroDrafts(t) ==
    LET tod == t % SecondsPerDay
        month == MonthOf(t \div SecondsPerDay)
        from_date == month * DaysPerMonth * SecondsPerDay + tod
        to_date == (month + 2) * DaysPerMonth * SecondsPerDay + tod
    IN SelectSeq(ParseStaticEvents(t),
                 LAMBDA e : /\ from_date <= Instant(e.event_date[1]) * TickSeconds
                            /\ Instant(e.event_date[1]) * TickSeconds < to_date)

\* the categories: those of the startup sweep, in its order, those a ticker
\* scopes, and those the scheduler fires
SweepOrder_EarningsFirst ==
    <<"earnings", "macro", "edgar", "analyst", "congress", "unusual_options">>

SweepOrder == <<"macro", "earnings", "edgar", "analyst", "congress", "unusual_options">>
TickerScoped == {"earnings", "edgar", "analyst", "congress", "unusual_options"}

\* the jobs main.py imports from tasks/scheduler.py that the module does not
\* define
MissingJobs == {"analyst", "congress", "unusual_options"}

EventType(category) ==
    CASE category = "analyst" -> "analyst_rating"
      [] category = "congress" -> "congress_trade"
      [] category = "unusual_options" -> "unusual_options"

Outcomes(category) == IF category = "earnings" THEN EarningsOutcomes ELSE InsiderOutcomes

\* what the adapter of a category returns for one ticker
DraftsOf(category, ticker, outcome) ==
    CASE category = "earnings" -> EarningsDrafts(ticker, outcome)
      [] category = "edgar" -> InsiderDrafts(ticker, outcome)
      [] OTHER ->
          IF outcome = "ok"
          THEN <<[ticker |-> Some(ticker), event_type |-> EventType(category),
                  event_date |-> Some(Utc(0, 0, 0)), title |-> EventType(category),
                  importance |-> "medium", status |-> "completed"]>>
          ELSE <<>>

\* a batch fetch that gives up at the first ticker whose fetch failed
RECURSIVE FetchBatch_StopsAtFailure(_, _, _)
FetchBatch_StopsAtFailure(category, tickers, outs) ==
    IF tickers = <<>> \/ outs[Head(tickers)] # "ok"
    THEN <<>>
    ELSE DraftsOf(category, Head(tickers), outs[Head(tickers)])
             \o FetchBatch_StopsAtFailure(category, Tail(tickers), outs)

\* fetch_earnings_batch(tickers), fetch_edgar_batch(tickers), ...: outs[t] is
\* how the fetch for ticker t went
RECURSIVE FetchBatch(_, _, _)
FetchBatch(category, tickers, outs) ==
    IF tickers = <<>>
    THEN <<>>
    ELSE DraftsOf(category, Head(tickers), outs[Head(tickers)])
             \o FetchBatch(category, Tail(tickers), outs)

\* get_all_tracked_tickers(db): select distinct, in any order
TrackedLists(items) ==
    LET tickers == {it[2] : it \in items}
    IN Ordered(tickers, [t \in tickers |-> <<0, 0>>])

\* the tracked tickers as a missing job is taken to walk them: by name
TickerRank(t) == IF t = "AAPL" THEN 1 ELSE 2

SortedList(items) ==
    LET tickers == {it[2] : it \in items}
    IN Ordered(tickers, [t \in tickers |-> <<TickerRank(t), 0>>])

Range(f) == {f[i] : i \in DOMAIN f}

\* The cache after a job: tasks/scheduler.py and services/event_aggregator.py
\* make no call to redis_client.
CacheAfterJob_Purged(c, name) == Delete(c, DOMAIN c)

CacheAfterJob(c, name) == c

\* `if not tickers: return` skipped
EarlyExit_Never(name, tickers) == FALSE

\* `if not tickers: return` of run_fetch_earnings and run_fetch_edgar
EarlyExit(name, tickers) == name \in TickerScoped /\ tickers = <<>>

\* a batch fetch followed by an ingest of what each adapter call returned
RECURSIVE AdapterCalls_IngestEach(_, _, _)
AdapterCalls_IngestEach(name, tickers, outs) ==
    IF tickers = <<>>
    THEN <<>>
    ELSE <<[op |-> "adapter", ticker |-> Some(Head(tickers)),
            drafts |-> DraftsOf(name, Head(tickers), outs[Head(tickers)])],
           [op |-> "ingest", ticker |-> None,
            drafts |-> DraftsOf(name, Head(tickers), outs[Head(tickers)])]>>
             \o AdapterCalls_IngestEach(name, Tail(tickers), outs)

\* the adapter calls of a batch fetch, `for t in tickers`, with what each
\* returned
RECURSIVE AdapterCalls(_, _, _)
AdapterCalls(name, tickers, outs) ==
    IF tickers = <<>>
    THEN <<>>
    ELSE <<[op |-> "adapter", ticker |-> Some(Head(tickers)),
            drafts |-> DraftsOf(name, Head(tickers), outs[Head(tickers)])]>>
             \o AdapterCalls(name, Tail(tickers), outs)

RECURSIVE Flatten(_)
Flatten(seqs) == IF seqs = <<>> THEN <<>> ELSE Head(seqs) \o Flatten(Tail(seqs))

\* The calls a run of an ingestion job makes, in order, up to and including
\* its call of upsert_events: get_all_tracked_tickers (not in the macro job),
\* the adapter per ticker (fetch_macro_events once for macro), upsert_events
\* with the list the batch fetch returned.
RunCalls(name, tickers, outs) ==
    IF name = "macro"
    THEN <<[op |-> "adapter", ticker |-> None, drafts |-> MacroDrafts(clock)],
           [op |-> "ingest", ticker |-> None, drafts |-> MacroDrafts(clock)]>>
    ELSE <<[op |-> "tickers", ticker |-> None, drafts |-> <<>>]>> \o
         (IF EarlyExit(name, tickers)
          THEN <<>>
          ELSE LET fetched == AdapterCalls(name, tickers, outs)
               IN fetched \o
                  <<[op |-> "ingest", ticker |-> None,
                     drafts |-> FetchBatch(name, tickers, outs)]>>)

\* One run of an ingestion job, `by` the scheduler or the sweep:
\* run_fetch_macro, run_fetch_earnings, run_fetch_edgar, and the three jobs
\* that are missing.  failAt is where the store raises in upsert_events (0:
\* nowhere).  The jobs of tasks/scheduler.py catch nothing, so the error
\* leaves the job; a missing job catches it at its top level.
RunIngest(name, by, tickers, outs, failAt) ==
    LET early == EarlyExit(name, tickers)
        batch == IF name = "macro" THEN MacroDrafts(clock) ELSE FetchBatch(name, tickers, outs)
    IN /\ failAt \in (IF early THEN {0} ELSE FailPoints(batch))
       /\ \E st \in UpsertSessions(store, nextId, batch, failAt, clock \div TickSeconds) :
            /\ store' = (IF early THEN store ELSE AfterCall(store, st, failAt))
            /\ nextId' = (IF early THEN nextId ELSE st.next)
       /\ job' = [name |-> name, by |-> by, tickers |-> tickers, outs |-> outs,
                  batch |-> IF early THEN <<>> ELSE batch, early |-> early,
                  raised |-> failAt # 0 /\ name \notin MissingJobs, before |-> store,
                  calls |-> RunCalls(name, tickers, outs)]
       /\ cache' = CacheAfterJob(cache, name)

\* the runs a job can make, given the portfolio; the feed of a missing job
\* answers or fails as a whole
IngestRuns(name, by) ==
    \E tickers \in (IF name = "macro" THEN {<<>>}
                    ELSE IF name \in MissingJobs THEN SortedList(portfolio)
                    ELSE TrackedLists(portfolio)) :
        \E outs \in {o \in [Range(tickers) -> Outcomes(name)] :
                         name \in MissingJobs => \A t, u \in Range(tickers) : o[t] = o[u]} :
            \E failAt \in 0..(2 * Cardinality(Tickers) + 1) :
                RunIngest(name, by, tickers, outs, failAt)

\* run_generate_summaries: the events of the next seven days without a
\* summary get the text generate_event_summary returns, when it returns one
RunSummaries(by) ==
    LET events == {r \in store : /\ r.event_date * TickSeconds >= clock
                                 /\ r.event_date * TickSeconds <= clock + 7 * SecondsPerDay
                                 /\ r.ai_summary = None}
    IN \E done \in {d \in SUBSET events : Cardinality(events \ d) <= 1} :
       \E fails \in BOOLEAN :
        /\ store' = IF fails THEN store
                    ELSE (store \ done) \cup
                         {[r EXCEPT !.ai_summary = Some("summary"), !.updated_at = clock \div TickSeconds] :
                              r \in done}
        /\ job' = [NoJob EXCEPT !.name = "summaries", !.by = by, !.raised = fails,
                                !.before = store]
        /\ cache' = CacheAfterJob(cache, "summaries")
        /\ UNCHANGED nextId

\* The scheduler fires a job.  Here it fires before the first job of the
\* sweep or once the sweep is over; ingestions that overlap are the matter of
\* SpecConc.
Scheduled ==
    /\ now < MaxRuns
    /\ sweep.pc \in {0, Len(SweepOrder)} \/ sweep.failed
    /\ now' = now + 1
    /\ \E name \in ScheduledJobs :
          IF name = "summaries" THEN RunSummaries("scheduler") ELSE IngestRuns(name, "scheduler")
    /\ UNCHANGED <<call, concVars, clock, redisUp, portfolio, bg, rd, reads, sweep, sched, app>>

\* _initial_data_sync: the next job of the sweep; one try/except is around
\* all six calls, so an error that leaves a job ends the sweep
SweepStep ==
    /\ app.sweeps > 0
    /\ ~app.down
    /\ sweep.pc < Len(SweepOrder)
    /\ ~sweep.failed
    /\ IngestRuns(SweepOrder[sweep.pc + 1], "sweep")
    /\ sweep' = [pc |-> sweep.pc + 1,
                 ran |-> Append(sweep.ran, SweepOrder[sweep.pc + 1]),
                 failed |-> job'.raised]
    /\ UNCHANGED <<now, call, concVars, clock, redisUp, portfolio, bg, rd, reads, sched, app>>

\* What is there when the process starts: the portfolios and the cache
\* entries earlier runs of the process left (here, the answers reads got from
\* an empty store).
StartPortfolios ==
    {{}, {<<"u1", "AAPL">>}, {<<"u1", "AAPL">>, <<"u2", "AAPL">>, <<"u2", "MSFT">>}}

WarmCache ==
    [k \in {<<"events:today">>, <<"events:upcoming", "u1">>, <<"stock:events", "AAPL">>} |->
        [value |-> JsonDumps(<<>>),
         ttl |-> IF k[1] = "events:today" THEN CACHE_TTL_TODAY
                 ELSE IF k[1] = "events:upcoming" THEN CACHE_TTL_UPCOMING
                 ELSE CACHE_TTL_STOCK,
         at |-> 0]]

InitJobs ==
    /\ store = {}
    /\ nextId = 1
    /\ now = 0
    /\ call = NoCall
    /\ sess = [s \in Sessions |-> IdleSession]
    /\ portfolio \in StartPortfolios
    /\ cache = (IF portfolio = {} THEN <<>> ELSE WarmCache)
    /\ clock = 0
    /\ redisUp = TRUE
    /\ bg = IdleBg
    /\ rd = IdleRead
    /\ reads = 0
    /\ job = NoJob
    /\ sweep = NoSweep
    /\ sched = IdleSched
    /\ app = UpApp

NextJobs == Scheduled \/ SweepStep

SpecJobs == InitJobs /\ [][NextJobs]_vars

\* a job ran in this step, fired by the scheduler or as a step of the sweep
JobRuns == now' # now \/ sweep' # sweep

\* the rows of the store that carry the key fields of a draft
Stored(rows, d) ==
    {r \in rows : r.ticker = d.ticker /\ r.event_type = d.event_type /\ r.title = d.title}

\* the drafts of a batch that belong to one ticker
DraftsFor(batch, t) == SelectSeq(batch, LAMBDA d : d.ticker = Some(t))

\* the last job was a ticker-scoped job of tasks/scheduler.py that got as far
\* as its fetch
TickerJobRan == job.name \in {"earnings", "edgar"} /\ ~job.early

\* C15: a run of a scheduled job (earnings, filings, macro, AI-summary
\* backfill) or of a job of the startup sweep deletes no cache key and writes
\* none: the cache content after the run is the cache content before it.
C15_JobStep == JobRuns => cache' = cache

C15_JobsLeaveCacheAlone == [][C15_JobStep]_vars

\* a sweep and a scheduled job have run over a cache that held entries, and
\* the store changed under those entries
C15_Witness ==
    /\ sweep.pc = Len(SweepOrder)
    /\ now = MaxRuns
    /\ job.by = "scheduler"
    /\ store # {}
    /\ cache = WarmCache

\* C19, as claimed: in the startup sweep a failure of one category's job does
\* not prevent the jobs of the categories after it from running; a sweep that
\* has categories left has not been ended by a failure.
C19_SweepIsolation == sweep.pc < Len(SweepOrder) => ~sweep.failed

\* C20, as claimed: the batch of a ticker-scoped job holds exactly the drafts
\* of the tickers whose fetch succeeded, and those are ingested in the run.
C20_ExactlySucceededTickers ==
    TickerJobRan =>
        /\ \A i \in DOMAIN job.batch : job.outs[job.batch[i].ticker[1]] = "ok"
        /\ \A t \in Range(job.tickers) :
              job.outs[t] = "ok" => DraftsFor(job.batch, t) = DraftsOf(job.name, t, "ok")
        /\ \A i \in DOMAIN job.batch : Stored(store, job.batch[i]) # {}

\* C20, amended: a failure of one ticker's fetch is contained.  The batch
\* holds, for every tracked ticker, what that ticker's fetch had collected
\* when it ended (nothing when it failed before its first draft, the upcoming
\* draft when only the history call failed) and no draft of any other ticker;
\* unless the store raises during the ingest, every draft of the batch is in
\* the store after the run, and when it raises the store is as before the run.
C20_FailureContained ==
    TickerJobRan =>
        /\ \A t \in Range(job.tickers) :
              DraftsFor(job.batch, t) = DraftsOf(job.name, t, job.outs[t])
        /\ \A i \in DOMAIN job.batch : job.batch[i].ticker[1] \in Range(job.tickers)
        /\ Len(job.batch) <= 2 * Len(job.tickers)
        /\ ~job.raised => \A i \in DOMAIN job.batch : Stored(store, job.batch[i]) # {}
        /\ job.raised => store = job.before

\* an earnings run over two tickers in which the first ticker's fetch failed,
\* the second's succeeded, and the drafts of the second were ingested
C20_Witness ==
    /\ job.name = "earnings"
    /\ Len(job.tickers) = 2
    /\ job.outs[job.tickers[1]] = "failed"
    /\ job.outs[job.tickers[2]] = "ok"
    /\ ~job.raised
    /\ Len(job.batch) = 2
    /\ \A i \in DOMAIN job.batch : Stored(store, job.batch[i]) \ job.before # {}

\* ------------------------------------------------------ entries and time
\* Time passes: up to the last second some entry of the cache can be read
\* at, or to the second after it.
Advance ==
    /\ \E k \in DOMAIN cache :
          \E d \in {cache[k].at + cache[k].ttl - clock, cache[k].at + cache[k].ttl - clock + 1} :
              /\ d > 0
              /\ clock' = clock + d
    /\ UNCHANGED <<store, nextId, now, call, concVars, jobVars, cache, redisUp, portfolio, bg, rd, reads>>

\* the read paths, the jobs that change what they would answer, and time
NextTtl == Read \/ ReadSet \/ Scheduled \/ Advance

SpecTtl == Init /\ [][NextTtl]_vars

\* a read path wrote its answer in this step
ReadWrites == rd.pc = "queried" /\ rd'.pc = "done" /\ rd'.error = ""

\* C14: every cache entry is written with the TTL of its view (upcoming
\* 30 min, today 15 min, per-stock events 1 h, macro calendar 6 h, daily
\* summary 1 h, stock profile 1 h, earnings history 6 h); a read within the
\* TTL of the entry under its key returns the entry's value unchanged and
\* queries nothing, a read strictly after it is a miss, so no read returns a
\* cached value older than the TTL of its view.
C14_TtlStep ==
    LET minutes(view) ==
            CASE view = "upcoming" -> 30
              [] view = "today" -> 15
              [] view = "stock_events" -> 60
              [] view = "macro_calendar" -> 360
              [] view = "daily_summary" -> 60
              [] view = "profile" -> 60
              [] view = "earnings_history" -> 360
        key == rd'.key
    IN /\ ReadWrites =>
            /\ rd.key \in DOMAIN cache'
            /\ cache'[rd.key] = [value |-> JsonDumps(rd.value[1]),
                                 ttl |-> 60 * minutes(rd.req.view), at |-> clock]
       /\ (ReadArrives /\ key \in DOMAIN cache) =>
            /\ cache[key].ttl = 60 * minutes(rd'.req.view)
            /\ clock - cache[key].at <= cache[key].ttl =>
                  /\ rd'.hit
                  /\ ~rd'.queried
                  /\ rd'.value = Some(JsonLoads(cache[key].value))
                  /\ JsonDumps(rd'.value[1]) = cache[key].value
            /\ clock - cache[key].at > cache[key].ttl => ~rd'.hit /\ rd'.queried
       /\ (ReadArrives /\ rd'.hit) =>
            /\ key \in DOMAIN cache
            /\ clock - cache[key].at <= 60 * minutes(rd'.req.view)
       /\ (ReadArrives /\ key \notin DOMAIN cache) => ~rd'.hit

C14_TtlBound == [][C14_TtlStep]_vars

\* a read of the macro calendar hit an entry in the last second of its six
\* hours, and got the answer of six hours ago although the macro job has
\* changed what the query would answer
C14_Witness ==
    /\ rd.pc = "done"
    /\ rd.hit
    /\ rd.req.view = "macro_calendar"
    /\ rd.key \in DOMAIN cache
    /\ clock = cache[rd.key].at + 6 * 60 * 60
    /\ rd.value = Some(JsonLoads(cache[rd.key].value))
    /\ rd.value \notin Views(rd.req, store, portfolio, clock)

\* ------------------------------------------------- the scheduler's jobs
\* DELETE /api/portfolio/{ticker}: remove_ticker
\* a removal that also deletes the events of a ticker nobody tracks any more
RemoveTicker_Cascade(user, ticker) ==
    /\ <<user, ticker>> \in portfolio
    /\ portfolio' = portfolio \ {<<user, ticker>>}
    /\ store' = IF \E it \in portfolio' : it[2] = ticker
                THEN store
                ELSE {r \in store : r.ticker # Some(ticker)}
    /\ UNCHANGED <<nextId, now, call, concVars, jobVars, cache, clock, redisUp, bg, rd, reads>>

RemoveTicker(user, ticker) ==
    /\ <<user, ticker>> \in portfolio
    /\ portfolio' = portfolio \ {<<user, ticker>>}
    /\ UNCHANGED <<store, nextId, now, call, concVars, jobVars, cache, clock, redisUp, bg, rd, reads>>

\* a job that stays where its failure left it
AfterRun_StuckOnFailure(raised) == IF raised THEN "failed" ELSE "idle"

\* The state of a job when its coroutine has ended: the executor of the
\* scheduler catches what the coroutine raises, and the job stays scheduled.
AfterRun(raised) == "idle"

\* A cron trigger of a job is due: the scheduler starts the coroutine, unless
\* an instance of the job still runs (max_instances is 1), in which case the
\* trigger is skipped.
FireJob(name) ==
    /\ app.scheduler
    /\ ~app.down
    /\ now < MaxTriggers
    /\ now' = now + 1
    /\ sched' = IF sched[name].state = "idle"
                THEN [sched EXCEPT ![name].state = "running"]
                ELSE sched
    /\ UNCHANGED <<store, nextId, call, concVars, sysVars, job, sweep, app>>

\* the coroutine of a job runs to its end
FinishJob(name) ==
    /\ sched[name].state = "running"
    /\ IF name = "summaries" THEN RunSummaries("scheduler") ELSE IngestRuns(name, "scheduler")
    /\ sched' = [sched EXCEPT ![name] = [state |-> AfterRun(job'.raised),
                                         last |-> IF job'.raised THEN "failed" ELSE "success",
                                         runs |-> @.runs + 1]]
    /\ UNCHANGED <<now, call, concVars, clock, redisUp, portfolio, bg, rd, reads, sweep, app>>

Fire == \E name \in ScheduledJobs : FireJob(name)
Finish == \E name \in ScheduledJobs : FinishJob(name)
Remove == \E user \in Users : \E ticker \in Tickers : RemoveTicker(user, ticker)

NextSched == Fire \/ Finish \/ Remove

SpecSched == InitJobs /\ [][NextSched]_vars

\* the tracked tickers: the distinct tickers of the portfolio items
Tracked(items) == {it[2] : it \in items}

\* a run of the scheduler's job n ends in this step
RunEnds(n) == sched'[n].runs = sched[n].runs + 1

\* the positions of a call sequence at which upsert_events is called
IngestAt(calls) == {i \in DOMAIN calls : calls[i].op = "ingest"}

\* C21: a run of a ticker-scoped job first reads the tracked tickers as they
\* are at that run, then calls the adapter once per tracked ticker, one after
\* another, then calls ingestion once, with the concatenation of what the
\* adapter calls returned; the macro job calls its adapter once and then
\* ingestion once.  No ingestion precedes an adapter call.
C21_RunStep ==
    \A n \in {"earnings", "edgar", "macro"} :
        RunEnds(n) =>
            LET calls == job'.calls
                tickers == job'.tickers
                last == Len(calls)
            IN /\ job'.name = n
               /\ n = "macro" =>
                    /\ Len(calls) = 2
                    /\ calls[1].op = "adapter"
                    /\ calls[2] = [op |-> "ingest", ticker |-> None, drafts |-> calls[1].drafts]
               /\ n # "macro" =>
                    /\ calls[1].op = "tickers"
                    /\ Range(tickers) = Tracked(portfolio)
                    /\ Len(tickers) = Cardinality(Tracked(portfolio))
               /\ (n # "macro" /\ tickers # <<>>) =>
                    /\ last = Len(tickers) + 2
                    /\ \A i \in 1..Len(tickers) :
                          /\ calls[i + 1].op = "adapter"
                          /\ calls[i + 1].ticker = Some(tickers[i])
                    /\ calls[last].op = "ingest"
                    /\ calls[last].drafts =
                          Flatten([i \in 1..Len(tickers) |-> calls[i + 1].drafts])
               /\ Cardinality(IngestAt(calls)) <= 1
               /\ \A i \in IngestAt(calls) : i = last /\ calls[i].drafts = job'.batch

C22_RunStep ==
    /\ \A n \in {"earnings", "edgar"} :
          (RunEnds(n) /\ Tracked(portfolio) = {}) =>
              /\ job'.early
              /\ job'.calls = <<[op |-> "tickers", ticker |-> None, drafts |-> <<>>]>>
              /\ ~job'.raised
              /\ store' = store
              /\ nextId' = nextId
    /\ (RunEnds("macro") /\ Tracked(portfolio) = {}) =>
          /\ ~job'.early
          /\ IngestAt(job'.calls) # {}

C22_EmptyTrackedSet == [][C22_RunStep]_vars

\* the filings job left early, after another job had put rows in the store
C22_Witness ==
    /\ job.name = "edgar"
    /\ job.early
    /\ portfolio = {}
    /\ store # {}
    /\ store = job.before

\* C23: a job is idle or running; it goes from idle to running at a trigger
\* and from running to idle when its run ends, in success or in failure; an
\* idle job, whatever the end of its last run, is started by the next trigger
\* as long as the process is up.
C23_JobStep ==
    \A n \in ScheduledJobs :
        /\ sched[n].state \in {"idle", "running"}
        /\ sched'[n].state \in {"idle", "running"}
        /\ (sched[n].state = "idle" /\ sched'[n].state = "running") =>
              now' = now + 1 /\ sched'[n].runs = sched[n].runs
        /\ (sched[n].state = "running" /\ sched'[n].state = "idle") =>
              RunEnds(n) /\ sched'[n].last \in {"success", "failed"}
        /\ RunEnds(n) => sched[n].state = "running" /\ sched'[n].state = "idle"
        /\ (sched[n].state = "idle" /\ ~app.down /\ now < MaxTriggers) => ENABLED FireJob(n)
        /\ (FireJob(n) /\ sched[n].state = "idle") => sched'[n].state = "running"

C23_JobStateMachine == [][C23_JobStep]_vars

\* a job whose last run failed is running again
C23_Witness ==
    \E n \in ScheduledJobs :
        /\ sched[n].state = "running"
        /\ sched[n].last = "failed"
        /\ sched[n].runs = 1

\* ------------------------------------------------------ process startup
\* a process that is ready only once the sweep is over
CanBeReady_AfterSweep(a, sw) ==
    a.scheduler /\ a.sweeps > 0 /\ (sw.pc = Len(SweepOrder) \/ sw.failed)

\* lifespan() has reached its yield: nothing of the sweep is awaited before it
CanBeReady(a, sw) == a.scheduler /\ a.sweeps > 0

\* lifespan() up to its yield: setup_scheduler(), then
\* asyncio.create_task(_initial_data_sync()); no await lies between them
LifespanStartup ==
    /\ ~app.scheduler
    /\ ~app.down
    /\ app' = [app EXCEPT !.scheduler = TRUE, !.sweeps = @ + 1]
    /\ UNCHANGED <<store, nextId, now, call, concVars, sysVars, job, sweep, sched>>

\* the server takes requests once lifespan() has yielded
BecomeReady ==
    /\ ~app.ready
    /\ CanBeReady(app, sweep)
    /\ app' = [app EXCEPT !.ready = TRUE]
    /\ UNCHANGED <<store, nextId, now, call, concVars, sysVars, job, sweep, sched>>

\* lifespan() after its yield: scheduler.shutdown(wait=False)
Shutdown ==
    /\ app.ready
    /\ ~app.down
    /\ app' = [app EXCEPT !.down = TRUE]
    /\ UNCHANGED <<store, nextId, now, call, concVars, sysVars, job, sweep, sched>>

\* a process that starts over the rows of no portfolio or of one item
InitStart ==
    /\ store = {}
    /\ nextId = 1
    /\ now = 0
    /\ call = NoCall
    /\ sess = [s \in Sessions |-> IdleSession]
    /\ portfolio \in {{}, {<<"u1", "AAPL">>}}
    /\ cache = <<>>
    /\ clock = 0
    /\ redisUp = TRUE
    /\ bg = IdleBg
    /\ rd = IdleRead
    /\ reads = 0
    /\ job = NoJob
    /\ sweep = NoSweep
    /\ sched = IdleSched
    /\ app = NewApp

\* a request for today's events arrives
Serve == \E req \in {r \in Requests : r.view = "today"} : ReadGet(req)

NextStart == LifespanStartup \/ BecomeReady \/ SweepStep \/ Serve \/ ReadSet \/ Shutdown

SpecStart == InitStart /\ [][NextStart]_vars

\* the same process, in which lifespan() and the server get to run; nothing
\* is assumed of the sweep
SpecStartFair == SpecStart /\ WF_vars(LifespanStartup) /\ WF_vars(BecomeReady)

\* C24: on process start one sweep is fired, no more; the categories it has
\* run are, in this order, the first of macro, earnings, filings, analyst,
\* congress, unusual options, and it runs one category at a time, the next
\* only when the one before has ended.
C24_SweepStep ==
    LET order == <<"macro", "earnings", "edgar", "analyst", "congress", "unusual_options">>
    IN /\ app'.sweeps <= 1
       /\ app'.scheduler => app'.sweeps = 1
       /\ sweep'.pc > 0 => app'.sweeps = 1
       /\ sweep'.pc = Len(sweep'.ran)
       /\ sweep'.pc <= Len(order)
       /\ sweep'.ran = SubSeq(order, 1, sweep'.pc)
       /\ sweep'.pc \in {sweep.pc, sweep.pc + 1}
       /\ sweep'.pc = sweep.pc + 1 => job'.name = order[sweep'.pc] /\ job'.by = "sweep"

C24_SweepOrder == [][C24_SweepStep]_vars

\* the one sweep has run all six categories and left rows in the store
C24_Witness ==
    /\ app.sweeps = 1
    /\ sweep.ran = <<"macro", "earnings", "edgar", "analyst", "congress", "unusual_options">>
    /\ ~sweep.failed
    /\ job.name = "unusual_options"
    /\ job.batch # <<>>
    /\ store # {}

\* C25: the process becomes ready without waiting for the sweep: it gets
\* ready whether the sweep goes on, fails or never takes another step.
C25_ReadyWithoutSweep == <>app.ready

\* a request was served when the sweep had run some of its categories and
\* not yet all
C25_Witness ==
    /\ rd.pc = "done"
    /\ rd.error = ""
    /\ \E k \in app.served : 0 < k /\ k < Len(SweepOrder)
    /\ sweep.pc < Len(SweepOrder)
    /\ ~sweep.failed

\* ------------------------------------------- the views over stored rows
\* Drafts of one UTC day (day 0, the day of the request) and of the day
\* after, of every importance, with and without a ticker.
DayDraft(ticker, event_type, title, importance, event_date) ==
    [ticker |-> ticker, event_type |-> event_type, title |-> title,
     importance |-> importance, event_date |-> Some(event_date), status |-> "upcoming"]

DailyDrafts ==
    <<DayDraft(None, "macro", "CPI", "high", Utc(0, LastSec, 0)),
      DayDraft(None, "macro", "PPI", "medium", Utc(0, 0, 0)),
      DayDraft(None, "macro", "PCE", "medium", Utc(0, LastSec, 0)),
      DayDraft(None, "macro", "GDP", "low", Utc(0, 0, LastSub)),
      DayDraft(Some("AAPL"), "earnings", "AAPL Earnings Release", "high", Utc(0, LastSec, 0)),
      DayDraft(Some("AAPL"), "insider", "AAPL Form 4", "medium", Utc(0, 0, 0)),
      DayDraft(Some("MSFT"), "insider", "MSFT Form 4", "medium", Utc(0, 0, 0)),
      DayDraft(None, "macro", "FOMC", "high", Utc(1, 0, 0))>>

\* Drafts of reported quarters as fetch_earnings_for_ticker emits them, one
\* a day back from the day of the request, EPS in cents.
QuarterDraft(ticker, quarter, eps_estimate, eps_actual) ==
    [ticker |-> Some(ticker), event_type |-> "earnings",
     event_date |-> Some(Utc(0 - quarter, 0, 0)),
     title |-> EarningsTitle(ticker, TRUE), importance |-> "medium",
     status |-> "completed", eps_estimate |-> eps_estimate, eps_actual |-> eps_actual]

QuarterDrafts ==
    <<QuarterDraft("AAPL", 1, Some(200), Some(240)),
      QuarterDraft("AAPL", 2, Some(300), Some(400)),
      QuarterDraft("AAPL", 3, Some(200), None),
      QuarterDraft("AAPL", 4, Some(0), Some(10)),
      QuarterDraft("AAPL", 5, Some(0 - 200), Some(0 - 300)),
      QuarterDraft("AAPL", 6, Some(300), Some(200)),
      QuarterDraft("MSFT", 1, Some(100), Some(100)),
      DayDraft(Some("AAPL"), "earnings", "AAPL Earnings Release", "high", Utc(1, 0, 0))>>

\* the drafts of a list at the places S, in the order of the list
RECURSIVE Pick(_, _, _)
Pick(drafts, S, i) ==
    IF i > Len(drafts)
    THEN <<>>
    ELSE (IF i \in S THEN <<drafts[i]>> ELSE <<>>) \o Pick(drafts, S, i + 1)

\* the stores upsert_events leaves when it ingests up to MaxViewRows of the
\* drafts of a list into an empty table
StoresOf(drafts) ==
    UNION {{st.rows : st \in UpsertSessions({}, 1, Pick(drafts, S, 1), 0, 0)} :
               S \in {T \in SUBSET DOMAIN drafts : Cardinality(T) <= MaxViewRows}}

ViewStores == StoresOf(DailyDrafts) \cup StoresOf(QuarterDrafts)

\* u1 tracks AAPL, u2 tracks AAPL and MSFT
ViewPortfolio == {<<"u1", "AAPL">>, <<"u2", "AAPL">>, <<"u2", "MSFT">>}

ViewLimits == {1, 2, EARNINGS_LIMIT}

ViewRequests ==
    {[view |-> "daily_summary", user |-> u] : u \in Users}
        \cup {[view |-> "earnings_history", ticker |-> "AAPL", limit |-> n] : n \in ViewLimits}

InitViews ==
    /\ store \in ViewStores
    /\ nextId = Cardinality(store) + 1
    /\ now = 0
    /\ call = NoCall
    /\ sess = [s \in Sessions |-> IdleSession]
    /\ portfolio = ViewPortfolio
    /\ cache = <<>>
    /\ clock = 0
    /\ redisUp = TRUE
    /\ bg = IdleBg
    /\ rd = IdleRead
    /\ reads = 0
    /\ job = NoJob
    /\ sweep = NoSweep
    /\ sched = IdleSched
    /\ app = UpApp

\* a request for the daily summary or the earnings history arrives
ViewRead == \E req \in ViewRequests : ReadGet(req)

NextViews == ViewRead \/ ReadSet

SpecViews == InitViews /\ [][NextViews]_vars

\* the read path has computed the response of a view from the store
Computed(view) ==
    /\ rd.req # <<>>
    /\ rd.req.view = view
    /\ rd.queried
    /\ rd.value # None

\* the row an item of a response was made from
RowOfItem(rows, item) == CHOOSE r \in rows : Str(r.id) = item.id

\* the rows of the UTC day of second t
RowsOfDay(rows, t) == {r \in rows : UtcDay(r.event_date) = t \div SecondsPerDay}

\* the place of an importance in the order high, medium, low
ClaimedRank(importance) ==
    CASE importance = "high" -> 1
      [] importance = "medium" -> 2
      [] importance = "low" -> 3
      [] OTHER -> 4

\* one isoformat() text of a UTC instant is before another
IsoBefore(a, b) ==
    \/ a[1] < b[1]
    \/ a[1] = b[1] /\ a[2] < b[2]
    \/ a[1] = b[1] /\ a[2] = b[2] /\ a[3] < b[3]

\* a list of response items runs high, medium, low, and by ascending
\* event_date among items of one importance
HighFirst(items) ==
    \A i, j \in DOMAIN items :
        i < j =>
            \/ ClaimedRank(items[i].importance) < ClaimedRank(items[j].importance)
            \/ /\ items[i].importance = items[j].importance
               /\ ~IsoBefore(items[j].event_date, items[i].event_date)

\* C26: in a daily summary computed from the store, the portfolio list and
\* the macro list are each ordered high before medium before low, and by
\* ascending event_date among items of equal importance.
C26_HighMediumLow ==
    Computed("daily_summary") =>
        /\ HighFirst(rd.value[1].portfolio_events)
        /\ HighFirst(rd.value[1].macro_events)

\* C26, what the query does give: among items of equal importance the
\* event_date ascends, in both lists.
C26_DateAscendsWithinImportance ==
    Computed("daily_summary") =>
        \A items \in {rd.value[1].portfolio_events, rd.value[1].macro_events} :
            \A i, j \in DOMAIN items :
                (i < j /\ items[i].importance = items[j].importance)
                    => ~IsoBefore(items[j].event_date, items[i].event_date)

\* the tickers the user of a request tracks, read off the watch lists
TrackedBy(user) == {it[2] : it \in {i \in portfolio : i[1] = user}}

\* the identifiers of the items of a list
ItemIds(items) == {items[i].id : i \in DOMAIN items}

\* C27: in a daily summary computed from the store, the records of the
\* current UTC day with a ticker the user tracks make up the portfolio list,
\* those without a ticker the macro list, each once, and every other record
\* of the day is in neither; the combined list is the portfolio list followed
\* by the macro list; total_events is its length and high_importance the
\* number of its items of importance high.
C27_Partition ==
    Computed("daily_summary") =>
        LET v == rd.value[1]
            day == RowsOfDay(store, clock)
            mine == {r \in day : r.ticker # None /\ r.ticker[1] \in TrackedBy(rd.req.user)}
            macro == {r \in day : r.ticker = None}
        IN /\ ItemIds(v.portfolio_events) = {Str(r.id) : r \in mine}
           /\ Len(v.portfolio_events) = Cardinality(mine)
           /\ ItemIds(v.macro_events) = {Str(r.id) : r \in macro}
           /\ Len(v.macro_events) = Cardinality(macro)
           /\ \A i \in DOMAIN v.events :
                  v.events[i] = EventToResponse(RowOfItem(store, v.events[i]))
           /\ v.events = v.portfolio_events \o v.macro_events
           /\ ItemIds(v.events) \cap {Str(r.id) : r \in day \ (mine \cup macro)} = {}
           /\ v.total_events = Len(v.events)
           /\ v.high_importance =
                  Cardinality({i \in DOMAIN v.events : v.events[i].importance = "high"})

\* a summary with a portfolio item, a macro item and a record of the day in
\* neither list, one of the items of importance high
C27_Witness ==
    /\ Computed("daily_summary")
    /\ rd.value[1].portfolio_events # <<>>
    /\ rd.value[1].macro_events # <<>>
    /\ rd.value[1].high_importance > 0
    /\ rd.value[1].total_events < Cardinality(RowsOfDay(store, clock))

\* the completed earnings records of a ticker
CompletedEarnings(rows, ticker) ==
    {r \in rows : /\ r.ticker = Some(ticker)
                  /\ r.event_type = "earnings"
                  /\ r.status = "completed"}

\* a history is made of n of the records done, or of all of them when they
\* are fewer, each once, newest first, and no record left out is newer than
\* one returned
NewestOf(history, done, n) ==
    /\ Len(history) = IF Cardinality(done) < n THEN Cardinality(done) ELSE n
    /\ \A i \in DOMAIN history :
           \E r \in done : /\ history[i].event_date = IsoFormat(r.event_date)
                           /\ history[i].eps_estimate = r.eps_estimate
                           /\ history[i].eps_actual = r.eps_actual
                           /\ history[i].status = "completed"
    /\ \A i, j \in DOMAIN history :
           i < j => IsoBefore(history[j].event_date, history[i].event_date)
    /\ \A r \in done :
           (\A i \in DOMAIN history : history[i].event_date # IsoFormat(r.event_date))
               => \A i \in DOMAIN history :
                      IsoBefore(IsoFormat(r.event_date), history[i].event_date)

\* both EPS values of an item are present
HasBoth(item) == item.eps_actual # None /\ item.eps_estimate # None

\* beat is present exactly when both values are, and is actual >= estimate
BeatOf(item) ==
    /\ item.beat # None <=> HasBoth(item)
    /\ HasBoth(item) => item.beat = Some(item.eps_actual[1] >= item.eps_estimate[1])

\* surprise_percent is present exactly when both values are and the estimate
\* is not 0
SurprisePresent(item) ==
    item.surprise_percent # None <=> (HasBoth(item) /\ item.eps_estimate[1] # 0)

\* (actual - estimate) / |estimate| * 100 in hundredths of a percent, times
\* |estimate|
SurpriseTimesEstimate(item) == (item.eps_actual[1] - item.eps_estimate[1]) * 10000

\* C28 as stated: an earnings history computed from the store holds only
\* completed earnings records of the ticker, newest first, at most N; beat is
\* present exactly when both EPS values are and is actual >= estimate;
\* surprise_percent is present exactly when both are and the estimate is not
\* 0, and is exactly (actual - estimate) / |estimate| * 100.
C28_ExactSurprise ==
    Computed("earnings_history") =>
        LET history == rd.value[1].history
        IN /\ NewestOf(history, CompletedEarnings(store, rd.req.ticker), rd.req.limit)
           /\ \A i \in DOMAIN history :
                  /\ BeatOf(history[i])
                  /\ SurprisePresent(history[i])
                  /\ history[i].surprise_percent # None =>
                         history[i].surprise_percent[1] * Abs(history[i].eps_estimate[1])
                             = SurpriseTimesEstimate(history[i])

\* C28 amended: the same, with surprise_percent the value of
\* (actual - estimate) / |estimate| * 100 rounded to two decimals, that is,
\* no further than half a hundredth from it.
C28_RoundedSurprise ==
    Computed("earnings_history") =>
        LET history == rd.value[1].history
        IN /\ NewestOf(history, CompletedEarnings(store, rd.req.ticker), rd.req.limit)
           /\ \A i \in DOMAIN history :
                  /\ BeatOf(history[i])
                  /\ SurprisePresent(history[i])
                  /\ history[i].surprise_percent # None =>
                         2 * Abs(history[i].surprise_percent[1] * Abs(history[i].eps_estimate[1])
                                     - SurpriseTimesEstimate(history[i]))
                             <= Abs(history[i].eps_estimate[1])

\* a history cut at N with older completed records left out, holding the
\* quarter of estimate 3.00 and actual 4.00, whose surprise is 33.33
C28_Witness ==
    /\ Computed("earnings_history")
    /\ Len(rd.value[1].history) = rd.req.limit
    /\ Cardinality(CompletedEarnings(store, rd.req.ticker)) > rd.req.limit
    /\ \E i \in DOMAIN rd.value[1].history :
           /\ rd.value[1].history[i].beat = Some(TRUE)
           /\ rd.value[1].history[i].surprise_percent = Some(3333)

\* the returned records that have both EPS values
WithData(history) == {i \in DOMAIN history : HasBoth(history[i])}

\* the returned records whose actual is at least the estimate
Beats(history) ==
    {i \in WithData(history) : history[i].eps_actual[1] >= history[i].eps_estimate[1]}

\* what C29 says besides the value of beat_rate: it is absent exactly when no
\* returned record has both values, total_quarters counts every returned
\* record, and beat_rate is within 0..100 (in tenths of a percent)
Aggregate(v) ==
    /\ v.beat_rate = None <=> WithData(v.history) = {}
    /\ v.total_quarters = Len(v.history)
    /\ Cardinality(Beats(v.history)) <= Cardinality(WithData(v.history))
    /\ v.beat_rate # None => (v.beat_rate[1] >= 0 /\ v.beat_rate[1] <= 1000)

\* C29 as stated: beat_rate is exactly beats / (returned records with both
\* EPS values) * 100, absent when there is none; records missing a value are
\* counted in total_quarters, the number of returned records; beat_rate is
\* within 0..100.
C29_ExactBeatRate ==
    Computed("earnings_history") =>
        LET v == rd.value[1]
        IN /\ Aggregate(v)
           /\ v.beat_rate # None =>
                  v.beat_rate[1] * Cardinality(WithData(v.history))
                      = Cardinality(Beats(v.history)) * 1000

\* C29 amended: the same, with beat_rate the value of beats / denominator *
\* 100 rounded to one decimal, that is, no further than half a tenth from it.
C29_RoundedBeatRate ==
    Computed("earnings_history") =>
        LET v == rd.value[1]
        IN /\ Aggregate(v)
           /\ v.beat_rate # None =>
                  2 * Abs(v.beat_rate[1] * Cardinality(WithData(v.history))
                              - Cardinality(Beats(v.history)) * 1000)
                      <= Cardinality(WithData(v.history))

\* a history with a record missing a value, counted in total_quarters and
\* not in the denominator, and two beats of three: beat_rate 66.7
C29_Witness ==
    /\ Computed("earnings_history")
    /\ rd.value[1].total_quarters > Cardinality(WithData(rd.value[1].history))
    /\ Cardinality(WithData(rd.value[1].history)) = 3
    /\ rd.value[1].beat_rate = Some(667)

\* -------------------------------------------------- retention of records
\* The process after startup with one tracked ticker: a scheduled job runs,
\* the startup sweep runs its categories, the user removes the ticker from
\* the watch list and a request is served, in any order.
InitKeep ==
    /\ store = {}
    /\ nextId = 1
    /\ now = 0
    /\ call = NoCall
    /\ sess = [s \in Sessions |-> IdleSession]
    /\ portfolio = {<<"u1", "AAPL">>}
    /\ cache = <<>>
    /\ clock = 0
    /\ redisUp = TRUE
    /\ bg = IdleBg
    /\ rd = IdleRead
    /\ reads = 0
    /\ job = NoJob
    /\ sweep = NoSweep
    /\ sched = IdleSched
    /\ app = UpApp

\* the first request of the process
FirstServe == reads = 0 /\ Serve

NextKeep == Scheduled \/ SweepStep \/ Remove \/ FirstServe \/ ReadSet

SpecKeep == InitKeep /\ [][NextKeep]_vars

\* the identifiers of the records of a table
Ids(rows) == {r.id : r \in rows}

\* C30: no step of the ingestion engine, the jobs, the startup sweep, the
\* read paths or the removal of a ticker from a watch list removes an event
\* record: the set of record identifiers only grows.
C30_NoDeletion == [][Ids(store) \subseteq Ids(store')]_vars

\* records of a ticker are in the table, ingested while it was tracked, and
\* the ticker has since been removed from every watch list
C30_Witness ==
    \E r \in store :
        /\ r.ticker # None
        /\ \A it \in portfolio : it[2] # r.ticker[1]

\* ------------------------------------------------ retry by rescheduling
\* How a fetch of the earnings adapter can go from one run to the next: as
\* EarningsOutcomes, or with the release moved to a time the calendar gives
\* with its own UTC offset (_extract_earnings_date keeps an aware datetime
\* as it is).
RetryOutcomes == EarningsOutcomes \cup {"moved"}

\* the release the adapter returns for AAPL when a fetch goes as outcome
ReleaseDraft(outcome) == EarningsDrafts("AAPL", outcome)[1]

\* the job record of a finished run, counted up to MaxTriggers
Counted(runs) == IF runs < MaxTriggers THEN runs + 1 ELSE runs

\* A cron trigger of run_fetch_earnings is due, any number of times.
RetryFire ==
    /\ app.scheduler
    /\ ~app.down
    /\ sched' = IF sched["earnings"].state = "idle"
                THEN [sched EXCEPT !["earnings"].state = "running"]
                ELSE sched
    /\ UNCHANGED <<store, nextId, now, call, concVars, sysVars, job, sweep, app>>

\* run_fetch_earnings runs to its end with the fetches going as outs and the
\* store failing at failAt (0: not at all); the store fails in the first
\* MaxTriggers runs only
RetryRun(outs, failAt) ==
    /\ sched["earnings"].state = "running"
    /\ failAt # 0 => sched["earnings"].runs < MaxTriggers
    /\ \E tickers \in TrackedLists(portfolio) :
          /\ DOMAIN outs = Range(tickers)
          /\ RunIngest("earnings", "scheduler", tickers, outs, failAt)
    /\ sched' = [sched EXCEPT !["earnings"] =
                     [state |-> AfterRun(job'.raised),
                      last |-> IF job'.raised THEN "failed" ELSE "success",
                      runs |-> Counted(@.runs)]]
    /\ UNCHANGED <<now, call, concVars, clock, redisUp, portfolio, bg, rd, reads, sweep, app>>

RetryFinish ==
    \E S \in SUBSET {"AAPL"} : \E outs \in [S -> RetryOutcomes] :
        \E failAt \in 0..(MaxBatch + 1) : RetryRun(outs, failAt)

\* a run in which the fetch for AAPL goes as outcome and the store does not
\* fail
GoodRun(outcome) == RetryRun([t \in {"AAPL"} |-> outcome], 0)

InitRetry ==
    /\ store = {}
    /\ nextId = 1
    /\ now = 0
    /\ call = NoCall
    /\ sess = [s \in Sessions |-> IdleSession]
    /\ portfolio = {<<"u1", "AAPL">>}
    /\ cache = <<>>
    /\ clock = 0
    /\ redisUp = TRUE
    /\ bg = IdleBg
    /\ rd = IdleRead
    /\ reads = 0
    /\ job = NoJob
    /\ sweep = NoSweep
    /\ sched = IdleSched
    /\ app = UpApp

NextRetry == RetryFire \/ RetryFinish \/ Remove

SpecRetry == InitRetry /\ [][NextRetry]_vars

\* Triggers keep firing and runs end (the cron trigger has no end date and
\* a run that raised leaves the job scheduled); the adapter succeeds again
\* and again, with either release, in runs whose store does not fail.
SpecRetryFair ==
    /\ SpecRetry
    /\ WF_vars(RetryFire)
    /\ WF_vars(RetryFinish)
    /\ SF_vars(GoodRun("no_history"))
    /\ SF_vars(GoodRun("moved"))

StaysTracked == \E it \in portfolio : it[2] = "AAPL"

\* the store holds a record with the dedup key of draft d
KeyStored(d) == \E r \in store : DedupKey(r) = DraftKey(d)

\* the store holds a record the dedup query of draft d finds
MatchStored(d) == \E r \in store : Matching(r, d)

\* C31: if AAPL stays tracked (triggers keep firing and the adapter succeeds
\* again and again, by SpecRetryFair), then for each release d the adapter
\* returns the store eventually holds a record with d's dedup key, whatever
\* fetch or store failures earlier runs had.
C31_RetryStoresKey ==
    /\ ([]StaysTracked) => <>KeyStored(ReleaseDraft("no_history"))
    /\ ([]StaysTracked) => <>KeyStored(ReleaseDraft("moved"))

\* C31, what rescheduling does give: the store eventually holds, for each
\* release d the adapter returns, a record that the dedup query of d finds.
C31_RetryStoresMatch ==
    /\ ([]StaysTracked) => <>MatchStored(ReleaseDraft("no_history"))
    /\ ([]StaysTracked) => <>MatchStored(ReleaseDraft("moved"))

\* after more than one run the release moved by the calendar is merged into the
\* record of the release stored before, whose dedup key is another
C31_Witness ==
    /\ sched["earnings"].runs > 1
    /\ sched["earnings"].last = "success"
    /\ MatchStored(ReleaseDraft("moved"))
    /\ ~KeyStored(ReleaseDraft("moved"))

\* --------------------------------------------- duplicates inside a batch
\* the places of the last call's batch whose drafts have dedup key K
PlacesOf(K) ==
    {k \in DOMAIN call.batch : HasDate(DraftAt(k)) /\ DraftKey(DraftAt(k)) = K}

\* the dedup keys that two or more drafts of the last call's batch share and
\* that no record had when the call began (an empty-string ticker is left to
\* the claim on ticker matching)
SharedNewKeys ==
    {K \in {DraftKey(DraftAt(k)) : k \in {j \in DOMAIN call.batch : HasDate(DraftAt(j))}} :
        /\ K[1] # Some("")
        /\ Cardinality(PlacesOf(K)) >= 2
        /\ \A r \in call.before : DedupKey(r) # K}

\* the first place of a set of places
FirstOf(places) == CHOOSE k \in places : \A j \in places : k <= j

\* C32: when a call that did not raise got two or more drafts with one dedup
\* key that no stored record had, the first of them was inserted and each
\* later one was merged into that record: one record inserted for the key.
C32_OneInsertPerKey ==
    (call.batch # <<>> /\ ~call.raised) =>
        \A K \in SharedNewKeys :
            LET first == FirstOf(PlacesOf(K))
            IN /\ EntryAt(first).kind = "inserted"
               /\ \A k \in PlacesOf(K) \ {first} :
                      /\ EntryAt(k).kind = "merged"
                      /\ EntryAt(k).old[1].id = EntryAt(first).new[1].id
               /\ Cardinality({r \in call.after : DedupKey(r) = K}) = 1

\* C32, what the session does give: a draft that the dedup query matches
\* with a record inserted earlier in the same call is merged, not inserted
\* (the query sees the pending insert).
C32_PendingInsertSeen ==
    (call.batch # <<>> /\ ~call.raised) =>
        \A j, k \in DOMAIN call.trace :
            (/\ j < k
             /\ EntryAt(j).kind = "inserted"
             /\ HasDate(DraftAt(k))
             /\ Matching(EntryAt(j).new[1], DraftAt(k)))
                => EntryAt(k).kind = "merged"

\* ------------------------------------------------------- ticker matching
\* the record a call inserts for draft d, when the session sees it in rows:
\* d's ticker, type and title, at d's instant, within the day the query of d
\* looks in
OwnRecords(rows, d) ==
    {r \in rows : /\ r.ticker = Get(d, "ticker")
                  /\ r.event_type = GetOr(d, "event_type", "")
                  /\ r.title = GetOr(d, "title", "")
                  /\ r.event_date = DraftInstant(d)
                  /\ DateMatch(r, d)}

\* at step k of the last call a draft was merged only into a record of its
\* own ticker (absent into absent), and a draft whose own record the session
\* held was merged
TickerMatchedAt(k) ==
    /\ EntryAt(k).kind = "merged" => EntryAt(k).old[1].ticker = Get(DraftAt(k), "ticker")
    /\ OwnRecords(ViewBefore(k), DraftAt(k)) # {} => EntryAt(k).kind = "merged"

\* C33: a draft is matched only with a record of an equal ticker, an absent
\* ticker with an absent one, and the record inserted for a draft is matched
\* when the same draft is ingested again, whatever ticker the draft carries,
\* the empty string included.
C33_TickerMatching ==
    \A k \in DOMAIN call.trace : HasDate(DraftAt(k)) => TickerMatchedAt(k)

\* C33, for the drafts whose ticker is absent or not empty: the same.
C33_NonEmptyTickerMatching ==
    \A k \in DOMAIN call.trace :
        (HasDate(DraftAt(k)) /\ Get(DraftAt(k), "ticker") # Some("")) => TickerMatchedAt(k)

\* ------------------------------------------- the range of the macro feed
\* The instants of a call: the first and a later day of three months, at
\* midnight, a second later, at noon and in the last second of the day.
CallInstants ==
    {day * SecondsPerDay + tod :
        day \in 0..(3 * DaysPerMonth - 1),
        tod \in {0, 1, SecondsPerDay \div 2, SecondsPerDay - 1}}

InitMacro ==
    /\ store = {}
    /\ nextId = 1
    /\ now = 0
    /\ call = NoCall
    /\ sess = [s \in Sessions |-> IdleSession]
    /\ portfolio = {}
    /\ cache = <<>>
    /\ clock \in CallInstants
    /\ redisUp = TRUE
    /\ bg = IdleBg
    /\ rd = IdleRead
    /\ reads = 0
    /\ job = NoJob
    /\ sweep = NoSweep
    /\ sched = IdleSched
    /\ app = UpApp

\* fetch_macro_events() is called without arguments
FetchMacro ==
    /\ job' = [NoJob EXCEPT !.name = "fetch_macro_events", !.batch = MacroDrafts(clock),
                            !.calls = <<clock>>]
    /\ UNCHANGED <<store, nextId, now, call, concVars, cache, clock, redisUp, portfolio,
                   bg, rd, reads, sweep, sched, app>>

\* run_fetch_macro: fetch_macro_events() and the ingest of what it returns
MacroRun ==
    /\ now < MaxCalls
    /\ now' = now + 1
    /\ IngestRuns("macro", "scheduler")
    /\ UNCHANGED <<call, concVars, clock, redisUp, portfolio, bg, rd, reads, sweep, sched, app>>

NextMacro == FetchMacro \/ MacroRun

SpecMacro == InitMacro /\ [][NextMacro]_vars

\* second 0 of the first day of the month of second t, and of the month
\* n months later
FirstOfMonth(t, n) == (MonthOf(t \div SecondsPerDay) + n) * DaysPerMonth * SecondsPerDay

\* the events of the static calendar dated from second a on and before
\* second b, by name and day
CalendarBetween(a, b) ==
    {<<STATIC_EVENTS[i].name, STATIC_EVENTS[i].day>> :
        i \in {j \in DOMAIN STATIC_EVENTS :
                   /\ a <= STATIC_EVENTS[j].day * SecondsPerDay
                   /\ STATIC_EVENTS[j].day * SecondsPerDay < b}}

\* the events a call returned, by name and day
Returned(batch) ==
    {<<batch[i].macro_event_name[1], UtcDay(Instant(batch[i].event_date[1]))>> :
        i \in DOMAIN batch}

\* C34: fetch_macro_events() called without arguments returns exactly the
\* events of the static calendar dated from the first day of the current
\* month at 00:00 UTC on and before the first day of the month after next at
\* 00:00 UTC, whatever the time of day of the call.
C34_CurrentAndNextMonth ==
    job.name = "fetch_macro_events" =>
        Returned(job.batch) =
            CalendarBetween(FirstOfMonth(clock, 0), FirstOfMonth(clock, 2))

\* C34, what the call does give: the range from the first day of the current
\* month to the first day of the month after next, both at the time of day of
\* the call; the claimed range when the call is made at 00:00:00 UTC.
C34_RangeAtTimeOfCall ==
    job.name = "fetch_macro_events" =>
        Returned(job.batch) =
            CalendarBetween(FirstOfMonth(clock, 0) + (clock % SecondsPerDay),
                            FirstOfMonth(clock, 2) + (clock % SecondsPerDay))

\* ------------------------------------------------ the macro calendar view
\* Macro drafts on the first and the last day of the months of two years,
\* one in the last instant of December, and a record that is no macro event.
MonthDrafts ==
    <<DayDraft(None, "macro", "CPI", "high", Utc(0, 0, 0)),
      DayDraft(None, "macro", "PPI", "medium", Utc(DaysPerMonth - 1, LastSec, LastSub)),
      DayDraft(None, "macro", "GDP", "high", Utc(DaysPerMonth, 0, 0)),
      DayDraft(None, "macro", "PCE", "high",
               Utc(MonthsPerYear * DaysPerMonth - 1, LastSec, LastSub)),
      DayDraft(None, "macro", "FOMC", "high", Utc(MonthsPerYear * DaysPerMonth, 0, 0)),
      DayDraft(None, "macro", "ISM", "medium", Utc((MonthsPerYear + 1) * DaysPerMonth, 0, 0)),
      DayDraft(Some("AAPL"), "earnings", "AAPL Earnings Release", "high",
               Utc(DaysPerMonth, 0, 0))>>

\* query strings: a month of the first year, its December, January of the
\* next year, a month number past December, a year int() cannot read, a
\* string without "-", the empty string
MonthTexts ==
    {<<Some(0), Some(1)>>, <<Some(0), Some(MonthsPerYear)>>, <<Some(1), Some(1)>>,
     <<Some(0), Some(MonthsPerYear + 1)>>, <<None, Some(1)>>, <<Some(0)>>, <<>>}

MonthRequests ==
    {[view |-> "macro_calendar", month |-> m] : m \in {None} \cup {Some(x) : x \in MonthTexts}}

InitMonth ==
    /\ store \in StoresOf(MonthDrafts)
    /\ nextId = Cardinality(store) + 1
    /\ now = 0
    /\ call = NoCall
    /\ sess = [s \in Sessions |-> IdleSession]
    /\ portfolio = {}
    /\ cache = <<>>
    /\ clock \in {0, (MonthsPerYear * DaysPerMonth - 1) * SecondsPerDay + SecondsPerDay - 1}
    /\ redisUp = TRUE
    /\ bg = IdleBg
    /\ rd = IdleRead
    /\ reads = 0
    /\ job = NoJob
    /\ sweep = NoSweep
    /\ sched = IdleSched
    /\ app = UpApp

\* a request for the macro calendar arrives
MonthRead == \E req \in MonthRequests : ReadGet(req)

NextMonth == MonthRead \/ ReadSet

SpecMonth == InitMonth /\ [][NextMonth]_vars

\* the month a request is about, counted in months since the epoch: the one
\* its query string names when that is a year and a month number, the
\* current UTC month otherwise
UsedMonth(req, t) ==
    IF /\ req.month # None
       /\ Len(req.month[1]) = 2
       /\ req.month[1][1] # None
       /\ req.month[1][2] # None
       /\ req.month[1][2][1] \in 1..MonthsPerYear
    THEN req.month[1][1][1] * MonthsPerYear + req.month[1][2][1] - 1
    ELSE (t \div SecondsPerDay) \div DaysPerMonth

\* the macro records of month m
MacroOfMonth(rows, m) ==
    {r \in rows : /\ r.event_type = "macro"
                  /\ m * DaysPerMonth * TicksPerDay <= r.event_date
                  /\ r.event_date < (m + 1) * DaysPerMonth * TicksPerDay}

NoteDrafts ==
    <<DayDraft(Some("AAPL"), "earnings", "AAPL Earnings Release", "high", Utc(0, LastSec, 0)),
      DayDraft(None, "macro", "CPI", "high", Utc(7, 0, 0)),
      DayDraft(None, "macro", "PPI", "medium", Utc(8, 0, 0))>>

InitNotes ==
    /\ store \in StoresOf(NoteDrafts)
    /\ nextId = Cardinality(store) + 1
    /\ now = 0
    /\ call = NoCall
    /\ sess = [s \in Sessions |-> IdleSession]
    /\ portfolio = {}
    /\ cache = <<>>
    /\ clock \in {0, SecondsPerDay}
    /\ redisUp = TRUE
    /\ bg = IdleBg
    /\ rd = IdleRead
    /\ reads = 0
    /\ job = NoJob
    /\ sweep = NoSweep
    /\ sched = IdleSched
    /\ app = UpApp

\* get_event_detail up to `await generate_event_detail(event_data)`: the
\* event is loaded into the session of the request; a request for an event
\* that has its ai_detail answers at once
DetailLoad(s, row) ==
    /\ sess[s].pc = "idle"
    /\ row \in store
    /\ sess' = [sess EXCEPT ![s] =
                    IF row.ai_detail = None
                    THEN [IdleSession EXCEPT !.pc = "generate",
                                             !.objs = {[id |-> row.id, orig |-> row, cur |-> row]}]
                    ELSE [IdleSession EXCEPT !.pc = "done"]]
    /\ UNCHANGED <<store, nextId, now, call, sysVars, jobVars>>

\* get_event_detail from the answer of generate_event_detail on: a text is
\* set on the loaded event and committed, nothing is written when the
\* generator returns None; the generator words its text anew at every call
DetailWrite(s, detail) ==
    LET ss == sess[s]
        o == CHOOSE x \in ss.objs : TRUE
        written == [ss EXCEPT !.objs = {[o EXCEPT !.cur.ai_detail = detail,
                                                 !.cur.updated_at = clock \div TickSeconds]}]
    IN /\ ss.pc = "generate"
       /\ store' = IF Truthy(detail) THEN Committed(store, written) ELSE store
       /\ sess' = [sess EXCEPT ![s] = [IdleSession EXCEPT !.pc = "done"]]
       /\ UNCHANGED <<nextId, now, call, sysVars, jobVars>>

Load == \E s \in Sessions : \E row \in store : DetailLoad(s, row)

Write == \E s \in Sessions : \E detail \in {None, Some(<<"detail", s>>)} : DetailWrite(s, detail)

\* run_generate_summaries, fired by the scheduler
Summaries ==
    /\ RunSummaries("scheduler")
    /\ UNCHANGED <<now, call, concVars, clock, redisUp, portfolio, bg, rd, reads, sweep, sched, app>>

\* one ingestion of one of the drafts
Reingest == now = 0 /\ \E k \in DOMAIN NoteDrafts : UpsertEvents(<<NoteDrafts[k]>>, 0)

NextNotes == Load \/ Write \/ Summaries \/ Reingest

SpecNotes == InitNotes /\ [][NextNotes]_vars

\* the record of identifier id
RowWithId(rows, id) == CHOOSE r \in rows : r.id = id

\* a step writes ai_summary only on a record that had none and was dated
\* within the next seven days
SummaryStep ==
    \A id \in Ids(store) \cap Ids(store') :
        LET r == RowWithId(store, id)
            r2 == RowWithId(store', id)
        IN r2.ai_summary # r.ai_summary =>
               /\ r.ai_summary = None
               /\ r.event_date * TickSeconds >= clock
               /\ r.event_date * TickSeconds <= clock + 7 * SecondsPerDay

\* a step writes ai_detail only on a record that had none
DetailStep ==
    \A id \in Ids(store) \cap Ids(store') :
        RowWithId(store', id).ai_detail # RowWithId(store, id).ai_detail
            => RowWithId(store, id).ai_detail = None

\* a step of the job or of the detail route that leaves both annotations of
\* a record as they were leaves the record as it was
NothingElseStep ==
    call' = call =>
        \A id \in Ids(store) \cap Ids(store') :
            LET r == RowWithId(store, id)
                r2 == RowWithId(store', id)
            IN (r2.ai_summary = r.ai_summary /\ r2.ai_detail = r.ai_detail) => r2 = r

\* C36: ai_summary is written only on records without one dated within the
\* next seven days, ai_detail only on records without one; once set, neither
\* is changed by any operation; and when the generator returns nothing the
\* field stays unset and the record is left as it was.
C36_WriteOnce == [][SummaryStep /\ DetailStep /\ NothingElseStep]_vars

\* C36, what holds with overlapping detail requests: the same for
\* ai_summary and for the records a step does not annotate.
C36_SummaryWriteOnce == [][SummaryStep /\ NothingElseStep]_vars

\* ------------------------------------------------------ the limit of a view
\* requests for the events and for the earnings history of a stock, with
\* the limits of ViewLimits
LimitRequests ==
    {[view |-> v, ticker |-> "AAPL", limit |-> n] :
         v \in {"stock_events", "earnings_history"}, n \in ViewLimits}

LimitRead == \E req \in LimitRequests : ReadGet(req)

NextLimits == LimitRead \/ ReadSet

SpecLimits == InitViews /\ [][NextLimits]_vars

\* the cache has answered a request for one of the two views
ServedFromCache ==
    /\ rd.req # <<>>
    /\ rd.req.view \in {"stock_events", "earnings_history"}
    /\ rd.hit

\* C37: a response of the per-stock events view or of the earnings-history
\* view that the cache serves is a response a miss would compute for the
\* parameters of the request; no request is answered with an entry computed
\* for another limit.  (No step of this specification changes the store.)
C37_KeyCoversRequest ==
    ServedFromCache => rd.value \in Views(rd.req, store, portfolio, clock)

\* C37, what holds: the cache serves a response a miss would compute for the
\* ticker of the request and one of the limits.
C37_KeyCoversTicker ==
    ServedFromCache =>
        \E n \in ViewLimits : rd.value \in Views([rd.req EXCEPT !.limit = n], store, portfolio, clock)

\* ------------------------------------------------------ reads after the purge
\* a request for the upcoming events, today's events or the events of the
\* added ticker is taken up once the background fetch has committed and
\* purged, and it is answered
ReadAfterPurge ==
    /\ bg.pc = "done"
    /\ bg.purged
    /\ bg.ingested # {}
    /\ reads' = reads + 1
    /\ rd'.value # None
    /\ \/ rd'.req.view \in {"upcoming", "today"}
       \/ rd'.req.view = "stock_events" /\ rd'.req.ticker = bg.ticker

\* C38: once the background fetch for a ticker has committed its events and
\* purged the keys, a later read of the upcoming events, of today's events or
\* of the ticker's events returns the view of the store with the committed
\* events in it, also when a read that missed before the commit wrote its
\* result after the purge.
C38_FreshAfterPurge ==
    [][ReadAfterPurge => rd'.value \in Views(rd'.req, store, portfolio, clock)]_vars

\* ------------------------------------------------------ one commit per call
\* an error leaves upsert_events before its commit: the caller's
\* `async with async_session()` closes the session and what the call had
\* pending is rolled back.  The record keeps what had been pending.
AbortIngest(s) ==
    /\ sess[s].pc = "loop"
    /\ sess' = [sess EXCEPT ![s].pc = "failed"]
    /\ UNCHANGED <<store, nextId, now, call, sysVars, jobVars>>

Abort == \E s \in Sessions : AbortIngest(s)

\* the batches of the calls: an upcoming release, the release with its
\* result, and a macro event
AtomicDrafts == {d \in ConcDrafts : DOMAIN d \subseteq DOMAIN KeyDraft(None, "", "", None) \cup {"status", "eps_actual"}}

AtomicBatches == UNION {[1..n -> AtomicDrafts] : n \in 1..MaxBatch}

BeginAtomic == \E s \in Sessions : \E event_dicts \in AtomicBatches : BeginIngest(s, event_dicts)

\* ingestion calls side by side, some of which fail, and a reader of today's
\* events
NextAtomic == BeginAtomic \/ Step \/ Commit \/ Abort \/ FirstServe \/ ReadSet

SpecAtomic == Init /\ [][NextAtomic]_vars

\* session s commits in this step
Commits(s) == sess[s].pc = "loop" /\ sess'[s].pc = "done"

\* every insert and every changed column of a merge of the call is in rows
AllVisible(ss, rows) ==
    /\ ss.news \subseteq rows
    /\ \A o \in ss.objs :
          \E r \in rows :
              /\ r.id = o.id
              /\ \A f \in DOMAIN o.cur : o.cur[f] # o.orig[f] => r[f] = o.cur[f]

\* C39: the rows a reader can see change only in the step that commits a
\* call, and that step makes all inserts and merges of the call visible; a
\* step of the loop and the failure of a call leave the rows as they were, so
\* a reader sees none or all of a call and nothing of a call that failed.
C39_AtomicVisibility ==
    [][/\ (\A s \in Sessions : ~Commits(s)) => store' = store
       /\ \A s \in Sessions : Commits(s) => AllVisible(sess[s], store')]_vars

\* a reader has queried the store while a call has an insert and a merge
\* pending
C39_Witness ==
    /\ rd.pc = "queried"
    /\ \E s \in Sessions :
          /\ sess[s].pc = "loop"
          /\ sess[s].news # {}
          /\ \E o \in sess[s].objs : o.cur # o.orig
          /\ sess[s].news \cap store = {}
====
